---- MODULE Spec2Model ----
(***************************************************************************)
(* The audit sync/export pipeline of exporter.py: the sync marker file     *)
(* (watermark), discovery, the media-sync readiness gate, the per-audit    *)
(* format loop of process_audit and the marker update that follows it.     *)
(* Time is counted in whole ticks; a timestamp is the tick it names.       *)
(***************************************************************************)
EXTENDS Integers, Sequences, FiniteSets, TLC

\* ------------------------------------------------------------------ bounds
NumAudits == 2          \* audits held by the remote platform
MaxModified == 2        \* latest modified_at of a remote audit
MaxTime == 4            \* last tick of the wall clock
MaxFaults == 1          \* failures and interrupts injected in one behaviour
MediaSyncOffset == 1    \* settings[MEDIA_SYNC_OFFSET_IN_SECONDS], in ticks
NumActions == 2         \* actions held by the remote platform
MaxExports == 2         \* times one audit is exported to the same export directory
MaxNameLen == 2         \* characters of a config_name setting
MaxBatch == 2           \* actions in one actions_array
MaxSetups == 2          \* sql_setup executions counted in one run (the count saturates)
RowsPerAudit == 2       \* rows of the audit_table of one audit
MaxDelay == 2           \* settings[SYNC_DELAY_IN_SECONDS], in ticks
MaxPasses == 3          \* calls of sync_exports in one run of the loop
MaxItems == 2           \* items of an audit document below its header items
MaxSettingLen == 3      \* pieces of a template_ids setting
MaxResults == 3         \* entries of one discovery result
MaxCsvExports == 2      \* calls of export_audit_csv in one run
MaxInvocations == 2     \* CsvExporter instances made of one audit document

\* ----------------------------------------------------------- constants
\* beginning_of_time, '2000-01-01T00:00:00.000Z'
Epoch == 0

Audits == 1..NumAudits

\* settings[EXPORT_FORMATS] values exercised by the model
FormatConfigs ==
    { <<"pdf">>, <<"json", "csv">>, <<"media", "web-report-link">>,
      <<"sql">>, <<"pickle", "sql">>, <<"sql", "pickle">>,
      <<"docx", "doc_creation">>, <<"actions">>, <<"actions", "pdf">> }

\* formats that make sync_exports go on to the audit pass
AuditFormats ==
    {"pdf", "docx", "csv", "media", "web-report-link", "json", "sql", "pickle",
     "doc_creation"}

\* formats process_audit has an exporter for (doc_creation only exits)
ExportableFormats == AuditFormats \ {"doc_creation"}

IsTabular(f) == f \in {"sql", "pickle"}

IsExportable(f) == f \in ExportableFormats

\* exporters whose first step is a remote fetch (get_export, get_media, get_web_report)
FetchFormats == {"pdf", "docx", "media", "web-report-link"}

\* exporters whose local write sits in a try/except that logs and goes on
GuardedWriteFormats == {"pdf", "docx", "json", "media", "web-report-link"}

\* ------------------------------------------------------------ marker file
Actions == 1..NumActions

\* modified_at of the actions on the remote platform: action x was last
\* modified at tick x
ActionModified == [x \in Actions |-> x]

\* SYNC_MARKER_FILENAME and ACTIONS_SYNC_MARKER_FILENAME as the module sets them
SyncMarkerFilename == "last_successful/last_successful.txt"

ActionsSyncMarkerFilenameShared == SyncMarkerFilename
ActionsSyncMarkerFilename == "last_successful/last_successful_actions_export.txt"

\* open(path, 'w') and write: the file at `path` gets `written`; `file` is the
\* file at `target` before the call, the result is that file after it
WriteFile(path, written, target, file) == IF path = target THEN written ELSE file

NoFile == [exists |-> FALSE, content |-> <<>>]

EmptyFile == [exists |-> TRUE, content |-> <<>>]

FileWith(t) == [exists |-> TRUE, content |-> <<t>>]

\* the marker file a run can start with: none (first run), or the one an earlier
\* run left, here later than every audit the remote platform still returns
InitialMarkers == {NoFile, FileWith(MaxModified + 1)}

\* get_last_successful: the value returned; a file without a line raises IndexError
LastSuccessfulRaises(m) == m.exists /\ m.content = <<>>

LastSuccessful(m) == IF m.exists THEN m.content[1] ELSE Epoch

\* get_last_successful: the file it leaves behind
LastSuccessfulFileMutant(m) == IF m.exists THEN m ELSE FileWith(Epoch + 1)
LastSuccessfulFile(m) == IF m.exists THEN m ELSE FileWith(Epoch)

\* get_last_successful_actions_export: readlines()[0] of a file without a line
\* raises IndexError; with no file, open(.., 'w') needs the directory
\* 'last_successful', which this function does not create
LastSuccessfulActionsExportRaises(m, dir) ==
    IF m.exists THEN m.content = <<>> ELSE ~dir

LastSuccessfulActionsExport(m) == IF m.exists THEN m.content[1] ELSE Epoch

LastSuccessfulActionsExportFile(m) == IF m.exists THEN m ELSE FileWith(Epoch)

\* update_sync_marker_file has no handler, the exception leaves process_audit;
\* update_actions_sync_marker_file logs and calls exit()
MarkerWriteDispositionSwallow(stream) == "continue"
MarkerWriteDisposition(stream) == IF stream = "audits" THEN "raise" ELSE "exit"

\* the outcomes of open(.., 'w') on a marker file
MarkerWriteOutcomes == {"ok", "marker_error"}

\* export_actions: the date/time string handed to update_actions_sync_marker_file
\* is datetime.utcnow(), whatever the batch holds
ActionsMarkerValue(t, am, b) == t

\* sc_client.get_audit_actions(date_modified): the actions modified after the
\* watermark, or None
GetAuditActions(am, after) ==
    { [found |-> TRUE, actions |-> {x \in Actions : am[x] > after}],
      [found |-> FALSE, actions |-> {}] }

\* ------------------------------------------------------- readiness gate
\* check_if_media_sync_offset_satisfied: elapsed time since modified_at
ElapsedTime(t, modified_at) == t - modified_at

MediaSyncOffsetSatisfiedAlways(t, modified_at) == TRUE
MediaSyncOffsetSatisfiedAtOffset(t, modified_at) ==
    ElapsedTime(t, modified_at) >= MediaSyncOffset
MediaSyncOffsetSatisfied(t, modified_at) ==
    ElapsedTime(t, modified_at) > MediaSyncOffset

\* ------------------------------------------------------------- discovery
Range(s) == {s[i] : i \in 1..Len(s)}

Orderings(S) ==
    {s \in [1..Cardinality(S) -> S] : \A i, j \in 1..Cardinality(S) : s[i] = s[j] => i = j}

\* sc_client.discover_audits(modified_after = after): every audit modified at or
\* after the watermark, in the order the remote collaborator chooses
DiscoverAudits(m, after) == Orderings({a \in Audits : m[a] >= after})

NonDecreasing(m, s) == \A i, j \in 1..Len(s) : i < j => m[s[i]] <= m[s[j]]

StrictlyIncreasing(m, s) == \A i, j \in 1..Len(s) : i < j => m[s[i]] < m[s[j]]

\* --------------------------------------------------------- tabular setup
\* sync_exports, the loop over settings[EXPORT_FORMATS] before the audits: the
\* last tabular format of the configuration decides get_started
SetupResult(fmts) ==
    LET tab == SelectSeq(fmts, IsTabular)
    IN  IF tab = <<>> THEN "ignored"
        ELSE IF tab[Len(tab)] = "sql" THEN "sql_tuple" ELSE "pickle_list"

\* sync_exports, the same loop: the calls of sql_setup(logger, settings, 'audit')
\* it makes; sys.exit at a 'pickle' entry whose file exists ends the loop
SetupLoopExits(fmts, pkl) == pkl /\ "pickle" \in Range(fmts)

SetupLoopLength(fmts, pkl) ==
    IF SetupLoopExits(fmts, pkl)
    THEN CHOOSE i \in 1..Len(fmts) :
            fmts[i] = "pickle" /\ \A j \in 1..(i - 1) : fmts[j] # "pickle"
    ELSE Len(fmts)

SetupCallsNone(fmts, pkl) == 0
SetupCalls(fmts, pkl) ==
    Cardinality({i \in 1..SetupLoopLength(fmts, pkl) : fmts[i] = "sql"})

\* a counter that stops at MaxSetups
Counted(n) == IF n > MaxSetups THEN MaxSetups ELSE n

\* get_started[0]
GetStartedStatus(gs) == IF gs \in {"sql_tuple", "pickle_list"} THEN "complete" ELSE "i"

\* ------------------------------------------------- one format iteration
\* a call of the remote collaborator (get_audit, get_export, get_media,
\* get_web_report) returns, or fails by raising
RemoteFetchOutcomes == {"ok", "fetch_error"}

\* what one iteration of the format loop of process_audit can end with
Outcomes(fmt, fmts, gs) ==
    IF IsTabular(fmt)
    THEN IF GetStartedStatus(gs) # "complete" THEN {"exit"}
         ELSE IF "sql" \in Range(fmts)
              THEN IF gs = "pickle_list" THEN {"error"}
                   ELSE {"ok", "integrity", "operational", "interrupt"}
              ELSE {"ok"}
    ELSE IF fmt = "doc_creation" THEN {"exit"}
    ELSE {"ok"} \cup (IF fmt \in FetchFormats THEN RemoteFetchOutcomes ELSE {})
                \cup (IF fmt \in GuardedWriteFormats THEN {"write_error"} ELSE {})

Injected ==
    {"fetch_error", "write_error", "operational", "integrity", "interrupt", "marker_error"}

Cost(o) == IF o \in Injected THEN 1 ELSE 0

\* what the code does with an outcome: go on with the next statement, let the
\* exception leave process_audit, or end the process with sys.exit
DispositionSwallowFetch(o) ==
    IF o \in {"ok", "integrity", "write_error", "operational", "fetch_error"} THEN "continue"
    ELSE IF o = "error" THEN "raise"
    ELSE "exit"
Disposition(o) ==
    IF o \in {"ok", "integrity", "write_error", "operational"} THEN "continue"
    ELSE IF o \in {"fetch_error", "error"} THEN "raise"
    ELSE "exit"

\* export_audit_pandas: the exporters it runs, one per tabular format configured
PandasCalls(fmts, o) ==
    LET tab == SelectSeq(fmts, IsTabular)
    IN  IF Disposition(o) = "continue" \/ ~("sql" \in Range(tab)) THEN tab
        ELSE SubSeq(tab, 1, CHOOSE i \in 1..Len(tab) :
                                /\ tab[i] = "sql"
                                /\ \A j \in 1..(i - 1) : tab[j] # "sql")

\* the exporters one iteration of the format loop invokes
ExporterCalls(fmt, fmts, gs, o) ==
    IF IsTabular(fmt)
    THEN IF GetStartedStatus(gs) = "complete" THEN PandasCalls(fmts, o) ELSE <<>>
    ELSE IF IsExportable(fmt) THEN <<fmt>> ELSE <<>>

\* the format loop of process_audit is over
LoopFinishedEarly(i, fmts) == i >= Len(fmts)
LoopFinished(i, fmts) == i > Len(fmts)

\* the value process_audit hands to update_sync_marker_file
MarkerValueLatest(m, a) == MaxModified
MarkerValue(m, a) == m[a]

\* ------------------------------------------------------------------ state
VARIABLES
    marker,       \* the file SYNC_MARKER_FILENAME
    now,          \* datetime.utcnow()
    formats,      \* settings[EXPORT_FORMATS]
    modified,     \* modified_at of each audit on the remote platform
    pickleFile,   \* whether '<sql_table>.pkl' exists
    pc,           \* where the process stands
    found,        \* what discover_audits returned in this pass
    list,         \* list_of_audits['audits']
    idx,          \* export_count
    getStarted,   \* get_started
    fi,           \* position of the format loop of process_audit
    calls,        \* exporters invoked for the current audit, in order
    wmWrites,     \* calls of update_sync_marker_file for the current audit
    failures,     \* failures met while exporting the current audit
    wmAudit,      \* the marker file when the current audit was started
    wmPass,       \* the watermark when the pass was started
    done,         \* audits of this pass whose process_audit ran to its end
    skipped,      \* audits of this pass stopped by the readiness gate
    worked,       \* whether this pass fetched a document or invoked an exporter
    gate,         \* the last decision of the readiness gate
    cause,        \* why the process ended
    hist,         \* per audit: interrupted in mid-export, exported again since
    ordered,      \* every discovery so far came in non-decreasing modified_at
    faults,       \* failures and interrupts injected so far
    lsDir,        \* whether the directory 'last_successful' exists
    actionsMarker,  \* the file ACTIONS_SYNC_MARKER_FILENAME
    lastActions,  \* last_successful_actions_export while export_actions runs
    batch,        \* actions_array of the export_actions that has just run
    setups,       \* calls of sql_setup(.., 'audit') in this run, up to MaxSetups
    passSetups,   \* calls of sql_setup(.., 'audit') in this call of sync_exports
    sinkFiles,    \* the export directory: documents, media and the link-record file
    sinkRun,      \* the audit being written to the export directory, and how far
    cfgRuns,      \* the config_name setting of each run, and how far the run is
    checkpointFiles,  \* the files below 'last_successful' and the run that wrote each
    actionsArray, \* the actions_array handed to save_exported_actions_to_csv_file
    actionsCsv,   \* the file ACTIONS_EXPORT_FILENAME
    db,           \* the database: whether the table exists, and its committed rows
    session,      \* the rows of the open transaction of the SQLAlchemy session
    tabRun,       \* a run that exports to the database, and how far it is
    loopRun,      \* main and loop: the pass, the sleep, and how the process ended
    mediaRun,     \* an audit document, the media located in it, the media files
    fileRun,      \* an audit document, the filename_item_id setting, the file name
    tableRun,     \* the audit_table of an audit and what each exporter makes of it
    filterRun,    \* the template_ids setting and the discover_audits call made from it
    configRun,    \* the configuration file, the settings loaded from it, the client
    flattenRun,   \* an audit document and the audit_table of each CsvExporter made of it
    passRun,      \* one call of sync_exports: the discovery result and the audits processed
    bulkRun,      \* the use_real_template_name setting and the bulk export files
    actionsRun    \* one call of sync_exports: the action exports and the actions marker

\* the state of the specifications further down, which the sync pass leaves alone
fileVars == <<sinkFiles, sinkRun, cfgRuns, checkpointFiles, actionsArray, actionsCsv>>

FileVarsIdle ==
    /\ sinkFiles = <<>>
    /\ sinkRun = <<>>
    /\ cfgRuns = <<>>
    /\ checkpointFiles = {}
    /\ actionsArray = <<>>
    /\ actionsCsv = <<>>

tabularVars == <<db, session, tabRun>>

TabularVarsIdle ==
    /\ db = <<>>
    /\ session = <<>>
    /\ tabRun = <<>>

functionVars == <<loopRun, mediaRun, fileRun, tableRun>>

FunctionVarsIdle ==
    /\ loopRun = <<>>
    /\ mediaRun = <<>>
    /\ fileRun = <<>>
    /\ tableRun = <<>>

partVars == <<filterRun, configRun, flattenRun, passRun, bulkRun, actionsRun>>

PartVarsIdle ==
    /\ filterRun = <<>>
    /\ configRun = <<>>
    /\ flattenRun = <<>>
    /\ passRun = <<>>
    /\ bulkRun = <<>>
    /\ actionsRun = <<>>

other == <<fileVars, tabularVars, functionVars, partVars>>

OtherIdle ==
    /\ FileVarsIdle
    /\ TabularVarsIdle
    /\ FunctionVarsIdle
    /\ PartVarsIdle

vars ==
    <<marker, now, formats, modified, pickleFile, pc, found, list, idx, getStarted,
      fi, calls, wmWrites, failures, wmAudit, wmPass, done, skipped, worked, gate,
      cause, hist, ordered, faults, lsDir, actionsMarker, lastActions,
      batch, setups, passSetups, other>>

config == <<formats, modified>>

setupGhost == <<setups, passSetups>>

actionsGhost == <<lastActions, batch>>

NoBatch == [found |-> FALSE, actions |-> {}]

auditGhost == <<calls, wmWrites, failures, wmAudit>>

NoGate == [audit |-> 0, elapsed |-> MediaSyncOffset + 1, ok |-> TRUE]

Init ==
    /\ marker \in InitialMarkers
    /\ now = MaxModified
    /\ formats \in FormatConfigs
    /\ modified \in {m \in [Audits -> 1..MaxModified] :
                        \A a, b \in Audits : a < b => m[a] <= m[b]}
    /\ pickleFile = FALSE
    /\ pc = "start"
    /\ found = "notrun"
    /\ list = <<>>
    /\ idx = 1
    /\ getStarted = "none"
    /\ fi = 1
    /\ calls = <<>>
    /\ wmWrites = 0
    /\ failures = {}
    /\ wmAudit = marker
    /\ wmPass = LastSuccessful(marker)
    /\ done = <<>>
    /\ skipped = {}
    /\ worked = FALSE
    /\ gate = NoGate
    /\ cause = "none"
    /\ hist = [a \in Audits |-> "none"]
    /\ ordered = TRUE
    /\ faults = 0
    /\ lsDir \in {marker.exists, TRUE}
    /\ actionsMarker = NoFile
    /\ lastActions = Epoch
    /\ batch = NoBatch
    /\ setups = 0
    /\ passSetups = 0
    /\ OtherIdle

CurrentAudit == list[idx]

\* the process ends: an uncaught exception, sys.exit or an interrupt
Die(why) ==
    /\ pc' = "dead"
    /\ cause' = why
    /\ hist' = IF pc \in {"fetch", "formats"}
               THEN [hist EXCEPT ![CurrentAudit] = "interrupted"]
               ELSE hist

\* ---------------------------------------------------------------- actions
\* sync_exports up to the loop over the audits: read the watermark, discover,
\* set up the tabular sinks
SyncExportsBegin ==
    /\ \/ pc = "audits"
       \/ pc \in {"start", "sleep"} /\ ~("actions" \in Range(formats))
    /\ batch' = NoBatch
    /\ UNCHANGED <<now, config, pickleFile, fi, auditGhost, faults, actionsMarker,
                   lastActions, other>>
    /\ IF Range(formats) \cap AuditFormats = {}
       THEN /\ pc' = "sleep"
            /\ UNCHANGED <<marker, found, list, idx, getStarted, wmPass, done, skipped,
                           worked, gate, cause, hist, ordered, lsDir, setupGhost>>
       ELSE IF LastSuccessfulRaises(marker)
       THEN /\ Die("error")
            /\ UNCHANGED <<marker, found, list, idx, getStarted, wmPass, done, skipped,
                           worked, gate, ordered, lsDir, setupGhost>>
       ELSE /\ marker' = LastSuccessfulFile(marker)
            /\ lsDir' = TRUE
            /\ wmPass' = LastSuccessful(marker)
            /\ done' = <<>>
            /\ skipped' = {}
            /\ gate' = NoGate
            /\ worked' = FALSE
            /\ idx' = 1
            /\ \/ /\ found' = "none"
                  /\ list' = <<>>
                  /\ pc' = "sleep"
                  /\ passSetups' = 0
                  /\ UNCHANGED <<getStarted, cause, hist, ordered, setups>>
               \/ /\ found' = "result"
                  /\ list' \in DiscoverAudits(modified, LastSuccessful(marker))
                  /\ ordered' = (ordered /\ NonDecreasing(modified, list'))
                  /\ getStarted' = SetupResult(formats)
                  /\ passSetups' = SetupCalls(formats, pickleFile)
                  /\ setups' = Counted(setups + SetupCalls(formats, pickleFile))
                  /\ IF SetupLoopExits(formats, pickleFile)
                     THEN Die("exit")
                     ELSE \/ /\ pc' = "loop"
                             /\ UNCHANGED <<cause, hist>>
                          \/ /\ "sql" \in Range(formats)
                             /\ Die("exit")

\* process_audit up to the gate, and the step of the loop over the audits when
\* the gate stops the audit
ProcessAuditGate ==
    /\ pc = "loop"
    /\ idx <= Len(list)
    /\ gate' = [audit |-> CurrentAudit,
                elapsed |-> ElapsedTime(now, modified[CurrentAudit]),
                ok |-> MediaSyncOffsetSatisfied(now, modified[CurrentAudit])]
    /\ IF MediaSyncOffsetSatisfied(now, modified[CurrentAudit])
       THEN /\ pc' = "fetch"
            /\ calls' = <<>>
            /\ wmWrites' = 0
            /\ failures' = {}
            /\ wmAudit' = marker
            /\ fi' = 1
            /\ UNCHANGED <<idx, skipped>>
       ELSE /\ skipped' = skipped \cup {CurrentAudit}
            /\ idx' = idx + 1
            /\ UNCHANGED <<pc, fi, auditGhost>>
    /\ UNCHANGED <<marker, now, config, pickleFile, found, list, getStarted, wmPass,
                   done, worked, cause, hist, ordered, faults, lsDir, actionsMarker,
                   actionsGhost, setupGhost, other>>

\* process_audit: sc_client.get_audit and the export file name
GetAudit ==
    /\ pc = "fetch"
    /\ worked' = TRUE
    /\ \E o \in RemoteFetchOutcomes :
        /\ faults + Cost(o) <= MaxFaults
        /\ faults' = faults + Cost(o)
        /\ failures' = IF o = "ok" THEN failures ELSE failures \cup {"fetch"}
        /\ IF Disposition(o) = "continue"
           THEN /\ pc' = "formats"
                /\ UNCHANGED <<cause, hist>>
           ELSE Die("fetch_error")
    /\ UNCHANGED <<marker, now, config, pickleFile, found, list, idx, getStarted, fi,
                   calls, wmWrites, wmAudit, wmPass, done, skipped, gate, ordered, lsDir,
                   actionsMarker, actionsGhost, setupGhost, other>>

FailureOf(o) ==
    IF o = "fetch_error" THEN {"fetch"}
    ELSE IF o = "write_error" THEN {"write"}
    ELSE IF o = "operational" THEN {"operational"}
    ELSE {}

\* process_audit: one iteration of the loop over settings[EXPORT_FORMATS]
ExportFormat ==
    /\ pc = "formats"
    /\ fi <= Len(formats)
    /\ ~LoopFinished(fi, formats)
    /\ \E o \in Outcomes(formats[fi], formats, getStarted) :
        /\ faults + Cost(o) <= MaxFaults
        /\ faults' = faults + Cost(o)
        /\ calls' = calls \o ExporterCalls(formats[fi], formats, getStarted, o)
        /\ worked' = (worked \/ ExporterCalls(formats[fi], formats, getStarted, o) # <<>>)
        /\ pickleFile' =
              (pickleFile \/ "pickle" \in Range(ExporterCalls(formats[fi], formats, getStarted, o)))
        /\ failures' = failures \cup FailureOf(o)
        /\ IF Disposition(o) = "continue"
           THEN /\ fi' = fi + 1
                /\ UNCHANGED <<pc, cause, hist>>
           ELSE /\ Die(IF o = "fetch_error" THEN "fetch_error"
                       ELSE IF Disposition(o) = "exit" THEN "exit" ELSE "error")
                /\ UNCHANGED fi
    /\ UNCHANGED <<marker, now, config, found, list, idx, getStarted, wmWrites, wmAudit,
                   wmPass, done, skipped, gate, ordered, lsDir, actionsMarker,
                   actionsGhost, setupGhost, other>>

\* update_sync_marker_file: open(SYNC_MARKER_FILENAME, 'w') empties the file, or
\* fails, and the exception leaves process_audit, sync_exports and main
OpenMarker ==
    /\ pc = "formats"
    /\ LoopFinished(fi, formats)
    /\ wmWrites' = wmWrites + 1
    /\ \E o \in MarkerWriteOutcomes :
        /\ faults + Cost(o) <= MaxFaults
        /\ faults' = faults + Cost(o)
        /\ IF o = "ok"
           THEN /\ marker' = WriteFile(SyncMarkerFilename, EmptyFile,
                                       SyncMarkerFilename, marker)
                /\ actionsMarker' = WriteFile(SyncMarkerFilename, EmptyFile,
                                              ActionsSyncMarkerFilename, actionsMarker)
                /\ pc' = "write"
                /\ UNCHANGED <<failures, idx, cause, hist>>
           ELSE /\ failures' = failures \cup {"marker"}
                /\ UNCHANGED <<marker, actionsMarker>>
                /\ IF MarkerWriteDisposition("audits") = "continue"
                   THEN /\ pc' = "loop"
                        /\ idx' = idx + 1
                        /\ UNCHANGED <<cause, hist>>
                   ELSE /\ Die("marker_error")
                        /\ UNCHANGED idx
    /\ UNCHANGED <<now, config, pickleFile, found, list, getStarted, fi, calls, wmAudit,
                   wmPass, done, skipped, worked, gate, ordered, lsDir, actionsGhost,
                   setupGhost, other>>

\* update_sync_marker_file: the write and the close; process_audit returns and
\* the loop over the audits moves on
WriteMarker ==
    /\ pc = "write"
    /\ marker' = WriteFile(SyncMarkerFilename, FileWith(MarkerValue(modified, CurrentAudit)),
                           SyncMarkerFilename, marker)
    /\ actionsMarker' = WriteFile(SyncMarkerFilename,
                                  FileWith(MarkerValue(modified, CurrentAudit)),
                                  ActionsSyncMarkerFilename, actionsMarker)
    /\ done' = Append(done, CurrentAudit)
    /\ hist' = [hist EXCEPT ![CurrentAudit] =
                    IF @ = "none" THEN "none" ELSE "recovered"]
    /\ idx' = idx + 1
    /\ pc' = "loop"
    /\ UNCHANGED <<now, config, pickleFile, found, list, getStarted, fi, auditGhost,
                   wmPass, skipped, worked, gate, cause, ordered, faults, lsDir,
                   actionsGhost, setupGhost, other>>

\* sync_exports returns: every discovered audit has been handed to process_audit
SyncExportsEnd ==
    /\ pc = "loop"
    /\ idx > Len(list)
    /\ pc' = "sleep"
    /\ UNCHANGED <<marker, now, config, pickleFile, found, list, idx, getStarted, fi,
                   auditGhost, wmPass, done, skipped, worked, gate, cause, hist, ordered,
                   faults, lsDir, actionsMarker, actionsGhost, setupGhost, other>>

\* export_actions: get_last_successful_actions_export
ReadActionsMarker ==
    /\ pc \in {"start", "sleep"}
    /\ "actions" \in Range(formats)
    /\ IF LastSuccessfulActionsExportRaises(actionsMarker, lsDir)
       THEN /\ Die("error")
            /\ UNCHANGED <<actionsMarker, lastActions>>
       ELSE /\ actionsMarker' = LastSuccessfulActionsExportFile(actionsMarker)
            /\ lastActions' = LastSuccessfulActionsExport(actionsMarker)
            /\ pc' = "actions"
            /\ UNCHANGED <<cause, hist>>
    /\ UNCHANGED <<marker, now, config, pickleFile, found, list, idx, getStarted, fi,
                   auditGhost, wmPass, done, skipped, worked, gate, ordered, faults,
                   lsDir, batch, setupGhost, other>>

\* export_actions: get_audit_actions, the save of the batch, and
\* update_actions_sync_marker_file up to open(.., 'w'), which empties the file
\* or fails
ExportActions ==
    /\ pc = "actions"
    /\ \E r \in GetAuditActions(ActionModified, lastActions) :
        /\ batch' = r
        /\ IF ~r.found
           THEN /\ pc' = "audits"
                /\ UNCHANGED <<marker, actionsMarker, failures, faults, cause, hist>>
           ELSE \E o \in MarkerWriteOutcomes :
                /\ faults + Cost(o) <= MaxFaults
                /\ faults' = faults + Cost(o)
                /\ IF o = "ok"
                   THEN /\ actionsMarker' =
                              WriteFile(ActionsSyncMarkerFilename, EmptyFile,
                                        ActionsSyncMarkerFilename, actionsMarker)
                        /\ marker' = WriteFile(ActionsSyncMarkerFilename, EmptyFile,
                                               SyncMarkerFilename, marker)
                        /\ pc' = "awrite"
                        /\ UNCHANGED <<failures, cause, hist>>
                   ELSE /\ failures' = failures \cup {"actions_marker"}
                        /\ UNCHANGED <<marker, actionsMarker>>
                        /\ IF MarkerWriteDisposition("actions") = "continue"
                           THEN /\ pc' = "audits"
                                /\ UNCHANGED <<cause, hist>>
                           ELSE Die("exit")
    /\ lastActions' = Epoch
    /\ UNCHANGED <<now, config, pickleFile, found, list, idx, getStarted, fi, calls,
                   wmWrites, wmAudit, wmPass, done, skipped, worked, gate, ordered, lsDir,
                   setupGhost, other>>

\* update_actions_sync_marker_file: the write and the close; export_actions returns
WriteActionsMarker ==
    /\ pc = "awrite"
    /\ actionsMarker' =
          WriteFile(ActionsSyncMarkerFilename,
                    FileWith(ActionsMarkerValue(now, ActionModified, batch.actions)),
                    ActionsSyncMarkerFilename, actionsMarker)
    /\ marker' =
          WriteFile(ActionsSyncMarkerFilename,
                    FileWith(ActionsMarkerValue(now, ActionModified, batch.actions)),
                    SyncMarkerFilename, marker)
    /\ pc' = "audits"
    /\ UNCHANGED <<now, config, pickleFile, found, list, idx, getStarted, fi, auditGhost,
                   wmPass, done, skipped, worked, gate, cause, hist, ordered, faults,
                   lsDir, actionsGhost, setupGhost, other>>

\* the process is interrupted or killed in the middle of a pass
Interrupt ==
    /\ pc \in {"loop", "fetch", "formats", "write", "actions", "awrite", "audits"}
    /\ faults < MaxFaults
    /\ faults' = faults + 1
    /\ Die(IF pc = "write" THEN "interrupt_in_write"
           ELSE IF pc = "awrite" THEN "interrupt_in_actions_write"
           ELSE IF pc \in {"fetch", "formats"} THEN "interrupt_in_audit"
           ELSE "interrupt")
    /\ UNCHANGED <<marker, now, config, pickleFile, found, list, idx, getStarted, fi,
                   auditGhost, wmPass, done, skipped, worked, gate, ordered, lsDir,
                   actionsMarker, actionsGhost, setupGhost, other>>

\* the operator starts the tool again
Restart ==
    /\ pc = "dead"
    /\ pc' = "start"
    /\ cause' = "none"
    /\ failures' = {}
    /\ setups' = 0
    /\ passSetups' = 0
    /\ UNCHANGED <<marker, now, config, pickleFile, found, list, idx, getStarted, fi,
                   calls, wmWrites, wmAudit, wmPass, done, skipped, worked, gate, hist,
                   ordered, faults, lsDir, actionsMarker, actionsGhost, other>>

\* wall-clock time passes
Tick ==
    /\ now < MaxTime
    /\ now' = now + 1
    /\ UNCHANGED <<marker, config, pickleFile, pc, found, list, idx, getStarted, fi,
                   auditGhost, wmPass, done, skipped, worked, gate, cause, hist, ordered,
                   faults, lsDir, actionsMarker, actionsGhost, setupGhost, other>>

Next ==
    \/ ReadActionsMarker
    \/ ExportActions
    \/ WriteActionsMarker
    \/ SyncExportsBegin
    \/ ProcessAuditGate
    \/ GetAudit
    \/ ExportFormat
    \/ OpenMarker
    \/ WriteMarker
    \/ SyncExportsEnd
    \/ Interrupt
    \/ Restart
    \/ Tick

Spec == Init /\ [][Next]_vars

\* the sync pass at rest, for the specifications that follow
mainVars ==
    <<marker, now, formats, modified, pickleFile, pc, found, list, idx, getStarted,
      fi, calls, wmWrites, failures, wmAudit, wmPass, done, skipped, worked, gate,
      cause, hist, ordered, faults, lsDir, actionsMarker, lastActions, batch, setups,
      passSetups>>

MainIdle ==
    /\ marker = NoFile
    /\ now = MaxModified
    /\ formats = <<>>
    /\ modified = [a \in Audits |-> MaxModified]
    /\ pickleFile = FALSE
    /\ pc = "idle"
    /\ found = "notrun"
    /\ list = <<>>
    /\ idx = 1
    /\ getStarted = "none"
    /\ fi = 1
    /\ calls = <<>>
    /\ wmWrites = 0
    /\ failures = {}
    /\ wmAudit = NoFile
    /\ wmPass = Epoch
    /\ done = <<>>
    /\ skipped = {}
    /\ worked = FALSE
    /\ gate = NoGate
    /\ cause = "none"
    /\ hist = [a \in Audits |-> "none"]
    /\ ordered = TRUE
    /\ faults = 0
    /\ lsDir = FALSE
    /\ actionsMarker = NoFile
    /\ lastActions = Epoch
    /\ batch = NoBatch
    /\ setups = 0
    /\ passSetups = 0

\* ------------------------------------------------------- the export directory
\* The files the exporters of one audit leave in settings[EXPORT_PATH] when the
\* audit is exported, and exported again.

\* settings[EXPORT_FORMATS] values exercised here
SinkConfigs ==
    { <<"pdf">>, <<"docx", "json">>, <<"json", "csv">>, <<"media", "web-report-link">>,
      <<"pdf", "web-report-link">> }

\* formats whose exporter ends in save_exported_document
DocumentFormats == {"pdf", "docx", "json"}

\* what an export of audit a writes: the document, and the row of a tabular or
\* link file
Document(a) == <<a, "exported">>

StaleDocument(a) == <<a, "stale">>

HeaderRow == <<0, "header">>

RecordRow(a) == <<a, "row">>

\* open(file_path, 'wb') and write: the file holds what was written, whatever
\* it held
Overwritten(file, content) == content

\* save_web_report_link_to_file: open(.., 'ab') on a file that exists, else
\* open(.., 'wb') and the header row first
LinkRecordAdded(file, row) ==
    IF file # <<>> THEN Append(file, row) ELSE <<HeaderRow, row>>

\* csv_exporter.append_converted_audit_to_bulk_export_file: the rows of the audit
\* go to the end of the file of its template
BulkExportAppended(file, row) ==
    IF file # <<>> THEN Append(file, row) ELSE <<HeaderRow, row>>

NoDocuments == [a \in Audits, f \in DocumentFormats \cup {"media"} |-> <<>>]

StaleDocuments == [a \in Audits, f \in DocumentFormats \cup {"media"} |-> StaleDocument(a)]

SinkInit ==
    /\ MainIdle
    /\ PartVarsIdle
    /\ TabularVarsIdle
    /\ FunctionVarsIdle
    /\ cfgRuns = <<>>
    /\ checkpointFiles = {}
    /\ actionsArray = <<>>
    /\ actionsCsv = <<>>
    /\ \E d \in {NoDocuments, StaleDocuments}, l \in {<<>>, <<HeaderRow>>} :
          sinkFiles = [docs |-> d, links |-> l, csv |-> l]
    /\ \E a \in Audits, c \in SinkConfigs :
          sinkRun = [audit |-> a, fmts |-> c, at |-> 1, exports |-> 0, once |-> <<>>]

SinkFormat == sinkRun.fmts[sinkRun.at]

SinkStep(files) ==
    /\ sinkFiles' = files
    /\ sinkRun' = [sinkRun EXCEPT !.at = @ + 1]
    /\ UNCHANGED <<mainVars, partVars, cfgRuns, checkpointFiles, actionsArray, actionsCsv,
                   tabularVars, functionVars>>

\* export_audit_pdf_word, export_audit_json: save_exported_document
SaveExportedDocument ==
    /\ sinkRun.at <= Len(sinkRun.fmts)
    /\ SinkFormat \in DocumentFormats
    /\ SinkStep([sinkFiles EXCEPT !.docs[sinkRun.audit, SinkFormat] =
                      Overwritten(@, Document(sinkRun.audit))])

\* export_audit_media: save_exported_media_to_file
SaveExportedMediaToFile ==
    /\ sinkRun.at <= Len(sinkRun.fmts)
    /\ SinkFormat = "media"
    /\ SinkStep([sinkFiles EXCEPT !.docs[sinkRun.audit, "media"] =
                      Overwritten(@, Document(sinkRun.audit))])

\* export_audit_web_report_link: save_web_report_link_to_file
SaveWebReportLinkToFile ==
    /\ sinkRun.at <= Len(sinkRun.fmts)
    /\ SinkFormat = "web-report-link"
    /\ SinkStep([sinkFiles EXCEPT !.links = LinkRecordAdded(@, RecordRow(sinkRun.audit))])

\* export_audit_csv
ExportAuditCsv ==
    /\ sinkRun.at <= Len(sinkRun.fmts)
    /\ SinkFormat = "csv"
    /\ SinkStep([sinkFiles EXCEPT !.csv = BulkExportAppended(@, RecordRow(sinkRun.audit))])

\* process_audit returns; a later pass discovers the same audit again
SinkExported ==
    /\ sinkRun.at > Len(sinkRun.fmts)
    /\ sinkRun.exports < MaxExports
    /\ sinkRun' = [sinkRun EXCEPT !.at = IF sinkRun.exports + 1 < MaxExports THEN 1 ELSE @,
                                   !.exports = @ + 1,
                                   !.once = IF sinkRun.exports = 0 THEN sinkFiles ELSE @]
    /\ UNCHANGED <<mainVars, partVars, sinkFiles, cfgRuns, checkpointFiles, actionsArray, actionsCsv,
                   tabularVars, functionVars>>

SinkNext ==
    \/ SaveExportedDocument
    \/ SaveExportedMediaToFile
    \/ SaveWebReportLinkToFile
    \/ ExportAuditCsv
    \/ SinkExported

SinkSpec == SinkInit /\ [][SinkNext]_vars

\* ------------------------------------------------- configuration names
\* Two runs of the tool in one working directory, each with its own
\* config_name setting, and the marker files they write.

Runs == {1, 2}

\* the characters a config_name setting is made of here: a letter, a space, an
\* underscore and a character the pattern rejects
NameChars == {"a", " ", "_", "/"}

\* ^[A-Za-z0-9_-]*$
AllowedChars == {"a", "_", "-", "i", "u", "d", "t", "o", "r"}

NameStrings == UNION {[1..n -> NameChars] : n \in 0..MaxNameLen}

\* config_settings['config_name']: left blank (None), or a string
ConfigNameSettings ==
    {[given |-> FALSE, chars |-> <<>>]} \cup {[given |-> TRUE, chars |-> n] : n \in NameStrings}

\* 'iauditor'
DefaultConfigName == <<"i", "a", "u", "d", "i", "t", "o", "r">>

\* str.replace(' ', '_')
ReplaceSpaces(n) == [i \in 1..Len(n) |-> IF n[i] = " " THEN "_" ELSE n[i]]

\* load_config_settings: config_name before the pattern is applied
ConfigName(setting) ==
    IF ~setting.given THEN DefaultConfigName ELSE ReplaceSpaces(setting.chars)

\* load_config_settings: re.match("^[A-Za-z0-9_-]*$", config_name)
ConfigNameAccepted(n) == \A i \in 1..Len(n) : n[i] \in AllowedChars

RECURSIVE Joined(_)
Joined(n) == IF n = <<>> THEN "" ELSE Head(n) \o Joined(Tail(n))

\* main: 'last_successful/last_successful-{}.txt'.format(settings[CONFIG_NAME])
SyncMarkerFilenameUnnamed(n) == SyncMarkerFilename
SyncMarkerFilenameFor(n) ==
    "last_successful/last_successful-" \o Joined(n) \o ".txt"

\* main: 'last_successful/last_successful_actions_export-{}.txt'.format(..)
ActionsSyncMarkerFilenameFor(n) ==
    "last_successful/last_successful_actions_export-" \o Joined(n) \o ".txt"

\* open(path, 'w') by run r: the file at path is r's now
FilesAfterWrite(files, path, r) ==
    {f \in files : f.path # path} \cup {[path |-> path, owner |-> r]}

\* whether the write replaces a file another run wrote
Clobbers(files, path, r) == \E f \in files : f.path = path /\ f.owner # r

NameInit ==
    /\ MainIdle
    /\ PartVarsIdle
    /\ TabularVarsIdle
    /\ FunctionVarsIdle
    /\ sinkFiles = <<>>
    /\ sinkRun = <<>>
    /\ actionsArray = <<>>
    /\ actionsCsv = <<>>
    /\ cfgRuns \in [Runs -> {[setting |-> c, at |-> "new", name |-> <<>>, clobbered |-> FALSE] :
                                c \in ConfigNameSettings}]
    /\ checkpointFiles = {}

NameFrame ==
    UNCHANGED <<mainVars, partVars, sinkFiles, sinkRun, actionsArray, actionsCsv, tabularVars,
                functionVars>>

\* load_config_settings and main: the name is normalised and checked, and the
\* two file names are set; a name the pattern rejects ends the run
Configure(r) ==
    /\ cfgRuns[r].at = "new"
    /\ cfgRuns' = [cfgRuns EXCEPT ![r] =
            IF ConfigNameAccepted(ConfigName(cfgRuns[r].setting))
            THEN [cfgRuns[r] EXCEPT !.at = "ready",
                                    !.name = ConfigName(cfgRuns[r].setting)]
            ELSE [cfgRuns[r] EXCEPT !.at = "exited"]]
    /\ UNCHANGED checkpointFiles
    /\ NameFrame

RunWrites(r, path) ==
    /\ cfgRuns[r].at = "ready"
    /\ checkpointFiles' = FilesAfterWrite(checkpointFiles, path, r)
    /\ cfgRuns' = [cfgRuns EXCEPT ![r].clobbered = @ \/ Clobbers(checkpointFiles, path, r)]
    /\ NameFrame

\* update_sync_marker_file, get_last_successful: open(SYNC_MARKER_FILENAME, 'w')
WriteSyncMarkerFile(r) == RunWrites(r, SyncMarkerFilenameFor(cfgRuns[r].name))

\* update_actions_sync_marker_file: open(ACTIONS_SYNC_MARKER_FILENAME, 'w')
WriteActionsSyncMarkerFile(r) == RunWrites(r, ActionsSyncMarkerFilenameFor(cfgRuns[r].name))

NameNext ==
    \E r \in Runs :
        \/ Configure(r)
        \/ WriteSyncMarkerFile(r)
        \/ WriteActionsSyncMarkerFile(r)

NameSpec == NameInit /\ [][NameNext]_vars

\* ------------------------------------------------------ the actions file
\* save_exported_actions_to_csv_file and transform_action_object_to_list on
\* action records that have, or lack, their optional fields.

\* the values an action record can hold, by path
LeafPaths ==
    {"action_id", "description", "assignees", "priority", "status", "due_at",
     "audit.name", "audit.audit_id", "item.label", "item.item_id", "created_by.name",
     "created_by.user_id", "created_at", "modified_at", "completed_at"}

\* the paths present in a record: all, all but the optional ones, two, none
ActionShapes ==
    { LeafPaths,
      LeafPaths \ {"assignees", "due_at", "item.label", "item.item_id", "completed_at"},
      {"action_id", "modified_at"},
      {} }

\* an action record: modified just now or long ago, with a priority code the
\* table knows or one it does not
ActionRecord(shape, when, priority) ==
    [q \in shape |->
        IF q = "modified_at" THEN when
        ELSE IF q = "priority" THEN priority
        ELSE IF q = "status" THEN "50"
        ELSE IF q = "assignees" THEN <<"ann", "bob">>
        ELSE q]

ActionRecords ==
    {ActionRecord(sh, w, pr) : sh \in ActionShapes, w \in {"now", "old"}, pr \in {"30", "7"}}

\* priority_codes and status_codes
PriorityCodes == [c \in {"0", "10", "20", "30"} |->
    IF c = "0" THEN "None" ELSE IF c = "10" THEN "Low" ELSE IF c = "20" THEN "Medium" ELSE "High"]

StatusCodes == [c \in {"0", "10", "50", "60"} |->
    IF c = "0" THEN "To Do" ELSE IF c = "10" THEN "In Progress"
    ELSE IF c = "50" THEN "Done" ELSE "Cannot Do"]

\* csvExporter.get_json_property: the value at the path, '' when it is missing
GetJsonProperty(obj, path) == IF path \in DOMAIN obj THEN obj[path] ELSE ""

\* the names of the assignees; iterating the '' of a missing list yields none
AssigneeNames(action) ==
    IF "assignees" \in DOMAIN action THEN action["assignees"] ELSE <<>>

\* ", ".join(assignee_list)
RECURSIVE CommaJoined(_)
CommaJoined(names) ==
    IF names = <<>> THEN ""
    ELSE IF Len(names) = 1 THEN names[1]
    ELSE names[1] \o ", " \o CommaJoined(Tail(names))

\* the header row of ACTIONS_EXPORT_FILENAME
ActionsHeader ==
    <<"actionId", "description", "assignee", "priority", "priorityCode", "status",
      "statusCode", "dueDatetime", "audit", "auditId", "linkedToItem", "linkedToItemId",
      "creatorName", "creatorId", "createdDatetime", "modifiedDatetime",
      "completedDatetime">>

TransformActionObjectToListSparse(action) ==
    SelectSeq(<<"action_id", "description", "priority", "status", "due_at", "audit.name",
                "audit.audit_id", "item.label", "item.item_id", "created_by.name",
                "created_by.user_id", "created_at", "modified_at", "completed_at">>,
              LAMBDA q : q \in DOMAIN action)
TransformActionObjectToList(action) ==
    << GetJsonProperty(action, "action_id"),
       GetJsonProperty(action, "description"),
       CommaJoined(AssigneeNames(action)),
       GetJsonProperty(PriorityCodes, GetJsonProperty(action, "priority")),
       GetJsonProperty(action, "priority"),
       GetJsonProperty(StatusCodes, GetJsonProperty(action, "status")),
       GetJsonProperty(action, "status"),
       GetJsonProperty(action, "due_at"),
       GetJsonProperty(action, "audit.name"),
       GetJsonProperty(action, "audit.audit_id"),
       GetJsonProperty(action, "item.label"),
       GetJsonProperty(action, "item.item_id"),
       GetJsonProperty(action, "created_by.name"),
       GetJsonProperty(action, "created_by.user_id"),
       GetJsonProperty(action, "created_at"),
       GetJsonProperty(action, "modified_at"),
       GetJsonProperty(action, "completed_at") >>

\* save_exported_actions_to_csv_file: the file after the call
ActionsCsvAfter(file, array) ==
    IF array = <<>> THEN file
    ELSE (IF file # <<>> THEN file ELSE <<ActionsHeader>>)
            \o [i \in 1..Len(array) |-> TransformActionObjectToList(array[i])]

ActionsArrays == UNION {[1..n -> ActionRecords] : n \in 0..MaxBatch}

RowInit ==
    /\ MainIdle
    /\ PartVarsIdle
    /\ TabularVarsIdle
    /\ FunctionVarsIdle
    /\ sinkFiles = <<>>
    /\ sinkRun = <<>>
    /\ cfgRuns = <<>>
    /\ checkpointFiles = {}
    /\ actionsArray \in ActionsArrays
    /\ \E f \in {<<>>, <<ActionsHeader, TransformActionObjectToList(ActionRecord({}, "old", "7"))>>} :
          actionsCsv = [file |-> f, before |-> f, saved |-> FALSE]

\* export_actions with get_started None: save_exported_actions_to_csv_file
SaveExportedActionsToCsvFile ==
    /\ ~actionsCsv.saved
    /\ actionsCsv' = [file |-> ActionsCsvAfter(actionsCsv.file, actionsArray),
                      before |-> actionsCsv.file,
                      saved |-> TRUE]
    /\ UNCHANGED <<mainVars, partVars, sinkFiles, sinkRun, cfgRuns, checkpointFiles, actionsArray,
                   tabularVars, functionVars>>

RowNext == SaveExportedActionsToCsvFile

RowSpec == RowInit /\ [][RowNext]_vars

\* ----------------------------------------------------- the database sink
\* One call of sync_exports with 'sql' configured: sql_setup, then for each
\* discovered audit the format loop of process_audit with export_audit_sql, the
\* transaction of its session, the rows it commits, and the marker update.

\* settings[ALLOW_TABLE_CREATION]: the two strings sql_setup compares it with,
\* and any other value (a YAML boolean, the False of a missing key)
AllowSettings == {"true", "false", "other"}

\* what the operator types at the prompt of sql_setup
Answers == {<<"y">>, <<"Y", "e", "s">>, <<"n">>, <<>>}

\* validation.lower()
Lower(answer) == [i \in 1..Len(answer) |-> IF answer[i] = "Y" THEN "y" ELSE answer[i]]

\* validation.startswith('y')
StartsWithY(answer) == answer # <<>> /\ answer[1] = "y"

\* sql_setup with the table missing: whether Database.__table__.create runs;
\* otherwise sys.exit()
CreatesTableAlways(allow, answer) == TRUE
CreatesTable(allow, answer) ==
    IF allow = "true" THEN TRUE
    ELSE IF allow = "false" THEN FALSE
    ELSE StartsWithY(Lower(answer))

\* whether sql_setup gets as far as the input() prompt
Prompts(exists, allow) == ~exists /\ allow \notin {"true", "false"}

\* settings[EXPORT_FORMATS] values exercised here
TabularConfigs == {<<"sql">>, <<"pdf", "sql">>, <<"sql", "json">>}

\* modified_at of the audits on the remote platform: audit a was last modified
\* at tick a
TabularModified == [a \in Audits |-> a]

\* the primary keys of the rows of df_dict for audit a: the audit and the
\* position of the row in its audit_table
AuditKeys(a) == {<<a, k>> : k \in 1..RowsPerAudit}

\* a row of the table or of the session, and the call that wrote it
Row(key, via) == [key |-> key, via |-> via]

Keys(rows) == {r.key : r \in rows}

\* the tables a run can find: empty, holding one row, holding one audit
InitialTables ==
    {{}} \cup {{Row(<<a, k>>, "earlier")} : a \in Audits, k \in 1..RowsPerAudit}
         \cup {{Row(key, "earlier") : key \in AuditKeys(a)} : a \in Audits}

\* session.bulk_insert_mappings(database, df_dict): a key the table holds
\* already raises IntegrityError; OperationalError and KeyboardInterrupt can
\* come at any time
BulkInsertOutcomes(rows, keys) ==
    (IF Keys(rows) \cap keys = {} THEN {"ok"} ELSE {"integrity"})
        \cup {"operational", "interrupt"}

\* the rows bulk_insert_mappings puts into the transaction
BulkInserted(keys) == {Row(key, "bulk") : key \in keys}

\* session.rollback(): the transaction holds nothing
RolledBackKeepsRows(pending) == pending
RolledBack(pending) == {}

\* export_audit_sql, except IntegrityError: session.merge for every row of
\* df_dict, whether it was the conflicting one or not
MergedConflictsOnly(rows, keys) == {Row(key, "merge") : key \in keys \cap Keys(rows)}
Merged(rows, keys) == {Row(key, "merge") : key \in keys}

\* session.commit(): the rows of the transaction are in the table, each in the
\* place of the row that had its key
Committed(rows, pending) == {r \in rows : r.key \notin Keys(pending)} \cup pending

\* what export_audit_sql does with the outcome of the bulk insert: sys.exit(0)
\* after the rollback, or go on to the commit
BulkDisposition(o) == IF o = "interrupt" THEN "exit" ELSE "continue"

TabularInit ==
    /\ MainIdle
    /\ PartVarsIdle
    /\ FileVarsIdle
    /\ FunctionVarsIdle
    /\ db \in {[exists |-> FALSE, rows |-> {}]}
                \cup {[exists |-> TRUE, rows |-> t] : t \in InitialTables}
    /\ session = {}
    /\ \E allow \in AllowSettings, c \in TabularConfigs,
          l \in DiscoverAudits(TabularModified, Epoch) :
          tabRun = [allow |-> allow, fmts |-> c, list |-> l, at |-> 1, fi |-> 1,
                    pc |-> "setup", cause |-> "none", status |-> "none",
                    docs |-> {}, sqlCalls |-> {}, mark |-> Epoch,
                    created |-> FALSE, prompted |-> FALSE, answer |-> <<>>,
                    rollbacks |-> 0, found |-> db.rows, outcome |-> "none",
                    committed |-> FALSE]

TabularFrame == UNCHANGED <<mainVars, partVars, fileVars, functionVars>>

TabularAudit == tabRun.list[tabRun.at]

TabularFormat == tabRun.fmts[tabRun.fi]

\* the process ends with sys.exit, or with KeyboardInterrupt caught in main
TabularExit(run, why, status) ==
    [run EXCEPT !.pc = "dead", !.cause = why, !.status = status]

\* sync_exports: sql_setup(logger, settings, 'audit') once the audits are
\* discovered
SqlSetup ==
    /\ tabRun.pc = "setup"
    /\ UNCHANGED session
    /\ TabularFrame
    /\ IF db.exists
       THEN /\ tabRun' = [tabRun EXCEPT !.pc = "formats"]
            /\ UNCHANGED db
       ELSE \E answer \in IF Prompts(db.exists, tabRun.allow) THEN Answers ELSE {<<>>} :
            LET asked == [tabRun EXCEPT !.prompted = Prompts(db.exists, tabRun.allow),
                                        !.answer = answer]
            IN  IF CreatesTable(tabRun.allow, answer)
                THEN /\ db' = [db EXCEPT !.exists = TRUE]
                     /\ tabRun' = [asked EXCEPT !.pc = "formats", !.created = TRUE]
                ELSE /\ UNCHANGED db
                     /\ tabRun' = TabularExit(asked, "setup_refused", "0")

\* process_audit: an iteration of the format loop for a format other than 'sql'
ExportDocument ==
    /\ tabRun.pc = "formats"
    /\ tabRun.at <= Len(tabRun.list)
    /\ tabRun.fi <= Len(tabRun.fmts)
    /\ ~IsTabular(TabularFormat)
    /\ tabRun' = [tabRun EXCEPT !.docs = @ \cup {<<TabularAudit, TabularFormat>>},
                                !.fi = @ + 1]
    /\ UNCHANGED <<db, session>>
    /\ TabularFrame

\* export_audit_sql up to session.bulk_insert_mappings: the rows of the audit
\* are in the transaction
BulkInsertMappings ==
    /\ tabRun.pc = "formats"
    /\ tabRun.at <= Len(tabRun.list)
    /\ tabRun.fi <= Len(tabRun.fmts)
    /\ IsTabular(TabularFormat)
    /\ session' = BulkInserted(AuditKeys(TabularAudit))
    /\ tabRun' = [tabRun EXCEPT !.pc = "bulk", !.found = db.rows, !.outcome = "none",
                                !.committed = FALSE, !.rollbacks = 0,
                                !.sqlCalls = @ \cup {TabularAudit}]
    /\ UNCHANGED db
    /\ TabularFrame

\* export_audit_sql: bulk_insert_mappings returns or raises, and the handler
\* of what it raised
BulkInsertReturns ==
    /\ tabRun.pc = "bulk"
    /\ UNCHANGED db
    /\ TabularFrame
    /\ \E o \in BulkInsertOutcomes(db.rows, AuditKeys(TabularAudit)) :
        IF o = "ok"
        THEN /\ UNCHANGED session
             /\ tabRun' = [tabRun EXCEPT !.pc = "commit", !.outcome = o]
        ELSE /\ session' = RolledBack(session)
             /\ tabRun' =
                  IF BulkDisposition(o) = "exit"
                  THEN TabularExit([tabRun EXCEPT !.rollbacks = @ + 1, !.outcome = o],
                                   "interrupt_in_bulk", "0")
                  ELSE [tabRun EXCEPT !.rollbacks = @ + 1, !.outcome = o,
                                      !.pc = IF o = "integrity" THEN "merge" ELSE "commit"]

\* export_audit_sql, except IntegrityError: the loop of session.merge
MergeRows ==
    /\ tabRun.pc = "merge"
    /\ session' = Merged(db.rows, AuditKeys(TabularAudit))
    /\ tabRun' = [tabRun EXCEPT !.pc = "commit"]
    /\ UNCHANGED db
    /\ TabularFrame

\* export_audit_sql: session.commit()
Commit ==
    /\ tabRun.pc = "commit"
    /\ db' = [db EXCEPT !.rows = Committed(@, session)]
    /\ session' = {}
    /\ tabRun' = [tabRun EXCEPT !.pc = "formats", !.fi = @ + 1, !.committed = TRUE]
    /\ TabularFrame

\* process_audit: update_sync_marker_file(audit['modified_at']), and the loop
\* over the audits moves on
TabularUpdateMarker ==
    /\ tabRun.pc = "formats"
    /\ tabRun.at <= Len(tabRun.list)
    /\ tabRun.fi > Len(tabRun.fmts)
    /\ tabRun' = [tabRun EXCEPT !.mark = MarkerValue(TabularModified, TabularAudit),
                                !.at = @ + 1,
                                !.fi = 1,
                                !.pc = IF tabRun.at = Len(tabRun.list) THEN "returned"
                                       ELSE "formats"]
    /\ UNCHANGED <<db, session>>
    /\ TabularFrame

\* KeyboardInterrupt outside bulk_insert_mappings: main catches it and calls
\* sys.exit(0); the connection closes with the transaction open
TabularInterrupt ==
    /\ tabRun.pc \in {"formats", "merge", "commit"}
    /\ tabRun' = TabularExit(tabRun, "interrupt", "0")
    /\ session' = {}
    /\ UNCHANGED db
    /\ TabularFrame

TabularNext ==
    \/ SqlSetup
    \/ ExportDocument
    \/ BulkInsertMappings
    \/ BulkInsertReturns
    \/ MergeRows
    \/ Commit
    \/ TabularUpdateMarker
    \/ TabularInterrupt

TabularSpec == TabularInit /\ [][TabularNext]_vars

\* ------------------------------------------------------------ the sync loop
\* main and loop: the calls of sync_exports, the time.sleep between them, and
\* the ways the process ends.

\* settings[SYNC_DELAY_IN_SECONDS], in ticks
SyncDelays == 0..MaxDelay

\* time.sleep(sync_delay_in_seconds) returns once the delay has passed
SleepOverAtOnce(slept, delay) == TRUE
SleepOver(slept, delay) == slept >= delay

\* main: what follows the return of sync_exports
AfterPass(enabled) == IF enabled THEN "sleeping" ELSE "ended"

\* how a call of sync_exports can end other than by returning: sys.exit, an
\* exception nothing catches
PassFailures == {"exit", "error"}

LoopInit ==
    /\ MainIdle
    /\ PartVarsIdle
    /\ FileVarsIdle
    /\ TabularVarsIdle
    /\ mediaRun = <<>>
    /\ fileRun = <<>>
    /\ tableRun = <<>>
    /\ \E e \in BOOLEAN, d \in SyncDelays :
          loopRun = [enabled |-> e, delay |-> d, pc |-> "main", passes |-> 0,
                     running |-> 0, todo |-> 0, sleeps |-> 0, slept |-> 0,
                     last |-> "none", cause |-> "none"]

LoopFrame == UNCHANGED <<mainVars, partVars, fileVars, tabularVars, mediaRun, fileRun, tableRun>>

\* sync_exports is called: discovery returns the audits of this pass
BeginPass(run) ==
    \E n \in 0..NumAudits :
        loopRun' = [run EXCEPT !.pc = "pass", !.passes = @ + 1, !.running = @ + 1,
                               !.todo = n, !.last = "running"]

\* main: the first call of sync_exports, from loop or directly
MainCallsSyncExports ==
    /\ loopRun.pc = "main"
    /\ BeginPass(loopRun)
    /\ LoopFrame

\* sync_exports: process_audit for the next audit of the pass
LoopProcessAudit ==
    /\ loopRun.pc = "pass"
    /\ loopRun.todo > 0
    /\ loopRun' = [loopRun EXCEPT !.todo = @ - 1]
    /\ LoopFrame

\* sync_exports returns; loop logs and calls time.sleep, main logs and returns
SyncExportsReturns ==
    /\ loopRun.pc = "pass"
    /\ loopRun.todo = 0
    /\ loopRun' = [loopRun EXCEPT !.pc = AfterPass(loopRun.enabled),
                                  !.running = @ - 1,
                                  !.last = "returned",
                                  !.sleeps = IF AfterPass(loopRun.enabled) = "sleeping"
                                             THEN @ + 1 ELSE @,
                                  !.slept = 0,
                                  !.cause = IF AfterPass(loopRun.enabled) = "sleeping"
                                            THEN @ ELSE "completed"]
    /\ LoopFrame

\* sync_exports ends with sys.exit or an uncaught exception
SyncExportsFails ==
    /\ loopRun.pc = "pass"
    /\ \E why \in PassFailures :
          loopRun' = [loopRun EXCEPT !.pc = "dead", !.running = @ - 1, !.last = "failed",
                                     !.cause = why]
    /\ LoopFrame

\* a tick goes by inside time.sleep
Sleep ==
    /\ loopRun.pc = "sleeping"
    /\ loopRun.slept < loopRun.delay
    /\ loopRun' = [loopRun EXCEPT !.slept = @ + 1]
    /\ LoopFrame

\* time.sleep returns and the while loop calls sync_exports again
LoopCallsSyncExports ==
    /\ loopRun.pc = "sleeping"
    /\ SleepOver(loopRun.slept, loopRun.delay)
    /\ loopRun.passes < MaxPasses
    /\ BeginPass([loopRun EXCEPT !.sleeps = 0])
    /\ LoopFrame

\* KeyboardInterrupt in a pass or in time.sleep: main calls sys.exit(0)
LoopInterrupt ==
    /\ loopRun.pc \in {"pass", "sleeping"}
    /\ loopRun' = [loopRun EXCEPT !.pc = "dead",
                                  !.running = IF loopRun.pc = "pass" THEN @ - 1 ELSE @,
                                  !.last = IF loopRun.pc = "pass" THEN "interrupted" ELSE @,
                                  !.cause = "interrupt"]
    /\ LoopFrame

LoopNext ==
    \/ MainCallsSyncExports
    \/ LoopProcessAudit
    \/ SyncExportsReturns
    \/ SyncExportsFails
    \/ Sleep
    \/ LoopCallsSyncExports
    \/ LoopInterrupt

LoopSpec == LoopInit /\ [][LoopNext]_vars

\* ------------------------------------------------------------- audit media
\* get_media_from_audit over the items of an audit document, and
\* export_audit_media over the list it returns.

MediaIds == {"m1", "m2"}

\* a media descriptor: media_id, and file_ext when it has one
Descriptor(id, ext) == [media_id |-> id, file_ext |-> ext]

BareDescriptor(id) == [media_id |-> id]

NoFields == [q \in {} |-> q]

\* the items a document is made of here: without media, with a media
\* collection, with one media id in two sources under two extensions, with one
\* descriptor in two sources, with all three sources, with an empty collection,
\* with an empty file_ext
MediaItems ==
    { NoFields,
      "media" :> <<Descriptor("m1", "png"), BareDescriptor("m2")>>,
      ("media" :> <<BareDescriptor("m1")>>) @@ ("responses.image" :> Descriptor("m1", "png")),
      ("responses.image" :> BareDescriptor("m2")) @@ ("options.media" :> BareDescriptor("m2")),
      ("media" :> <<Descriptor("m1", "png")>>) @@ ("responses.image" :> Descriptor("m2", "png"))
            @@ ("options.media" :> Descriptor("m1", "png")),
      "media" :> <<>>,
      "options.media" :> Descriptor("m2", "") }

ItemSeqs(n) == UNION {[1..k -> MediaItems] : k \in 0..n}

\* audit_json: header_items and items
MediaDocuments == {[header_items |-> h, items |-> i] : h \in ItemSeqs(1), i \in ItemSeqs(MaxItems)}

\* get_media_from_audit: file_ext of the descriptor, 'jpg' without one
FileExt(d) == IF "file_ext" \in DOMAIN d THEN d["file_ext"] ELSE "jpg"

\* get_media_from_audit: [media_id, file_ext]
MediaEntry(d) == <<d["media_id"], FileExt(d)>>

\* get_media_from_audit: what one iteration of the loop over the items appends
ItemEntriesFirstSource(item) ==
    IF "media" \in DOMAIN item
    THEN [i \in 1..Len(item["media"]) |-> MediaEntry(item["media"][i])]
    ELSE IF "responses.image" \in DOMAIN item THEN <<MediaEntry(item["responses.image"])>>
    ELSE IF "options.media" \in DOMAIN item THEN <<MediaEntry(item["options.media"])>>
    ELSE <<>>
ItemEntries(item) ==
    (IF "media" \in DOMAIN item
     THEN [i \in 1..Len(item["media"]) |-> MediaEntry(item["media"][i])]
     ELSE <<>>)
    \o (IF "responses.image" \in DOMAIN item
        THEN <<MediaEntry(item["responses.image"])>> ELSE <<>>)
    \o (IF "options.media" \in DOMAIN item
        THEN <<MediaEntry(item["options.media"])>> ELSE <<>>)

\* export_audit_media: 'jpg' for an entry without an extension
Extension(ext) == IF ext = "" THEN "jpg" ELSE ext

\* save_exported_media_to_file: filename + '.' + extension below the media
\* directory of the audit
MediaFilenameOfId(id, ext) == id
MediaFilename(id, ext) == id \o "." \o ext

MediaInit ==
    /\ MainIdle
    /\ PartVarsIdle
    /\ FileVarsIdle
    /\ TabularVarsIdle
    /\ loopRun = <<>>
    /\ fileRun = <<>>
    /\ tableRun = <<>>
    /\ \E d \in MediaDocuments :
          mediaRun = [doc |-> d, pc |-> "locate", at |-> 1, list |-> <<>>, k |-> 1,
                      fetches |-> <<>>, saves |-> <<>>, files |-> {}, overwrites |-> 0]

MediaFrame == UNCHANGED <<mainVars, partVars, fileVars, tabularVars, loopRun, fileRun, tableRun>>

\* audit_json['header_items'] + audit_json['items']
AllItems(doc) == doc.header_items \o doc.items

\* get_media_from_audit: one iteration of the loop over the items
LocateItem ==
    /\ mediaRun.pc = "locate"
    /\ mediaRun.at <= Len(AllItems(mediaRun.doc))
    /\ mediaRun' = [mediaRun EXCEPT
                        !.list = @ \o ItemEntries(AllItems(mediaRun.doc)[mediaRun.at]),
                        !.at = @ + 1]
    /\ MediaFrame

\* get_media_from_audit returns media_id_list
LocateReturns ==
    /\ mediaRun.pc = "locate"
    /\ mediaRun.at > Len(AllItems(mediaRun.doc))
    /\ mediaRun' = [mediaRun EXCEPT !.pc = "export"]
    /\ MediaFrame

\* export_audit_media: sc_client.get_media for the next entry; a failure of
\* the remote collaborator leaves export_audit_media
GetMedia ==
    /\ mediaRun.pc = "export"
    /\ mediaRun.k <= Len(mediaRun.list)
    /\ \E o \in RemoteFetchOutcomes :
          mediaRun' = [mediaRun EXCEPT !.fetches = Append(@, mediaRun.list[mediaRun.k][1]),
                                       !.pc = IF Disposition(o) = "continue" THEN "save"
                                              ELSE "dead"]
    /\ MediaFrame

\* export_audit_media: save_exported_media_to_file for the entry just fetched
SaveMedia ==
    /\ mediaRun.pc = "save"
    /\ LET entry == mediaRun.list[mediaRun.k]
           path == MediaFilename(entry[1], Extension(entry[2]))
       IN  mediaRun' = [mediaRun EXCEPT
                            !.saves = Append(@, path),
                            !.files = @ \cup {path},
                            !.overwrites = IF path \in mediaRun.files THEN @ + 1 ELSE @,
                            !.k = @ + 1,
                            !.pc = "export"]
    /\ MediaFrame

\* export_audit_media returns
ExportMediaReturns ==
    /\ mediaRun.pc = "export"
    /\ mediaRun.k > Len(mediaRun.list)
    /\ mediaRun' = [mediaRun EXCEPT !.pc = "done"]
    /\ MediaFrame

MediaNext ==
    \/ LocateItem
    \/ LocateReturns
    \/ GetMedia
    \/ SaveMedia
    \/ ExportMediaReturns

MediaSpec == MediaInit /\ [][MediaNext]_vars

\* ------------------------------------------------------ the export filename
\* parse_export_filename, and the `or audit_id` of process_audit, on audit
\* documents that have, or lack, a name and a title item. A string is the
\* sequence of its characters.

\* AUDIT_TITLE_ITEM_ID
AuditTitleItemId == "f3245d40-ea77-11e1-aff1-0800200c9a66"

\* settings[FILENAME_ITEM_ID]: None, the audit title item, another item
FilenameItemIds ==
    {[given |-> FALSE, id |-> ""], [given |-> TRUE, id |-> AuditTitleItemId],
     [given |-> TRUE, id |-> "item-1"]}

\* the texts a name or a response holds here: '', ' ', 'A', 'A/B', ' A', '/'
Texts == {<<>>, <<" ">>, <<"A">>, <<"A", "/", "B">>, <<" ", "A">>, <<"/">>}

\* audit_json['audit_id']
FilenameAuditId == <<"i", "d">>

\* a header item: its item_id, and responses, with or without text
HeaderItems ==
    UNION {{ "item_id" :> id,
             ("item_id" :> id) @@ ("responses" :> NoFields) }
           \cup {("item_id" :> id) @@ ("responses" :> ("text" :> t)) : t \in Texts} :
           id \in {AuditTitleItemId, "item-1"}}

HeaderItemSeqs ==
    {<<>>} \cup {<<h>> : h \in HeaderItems} \cup {<<h, g>> : h \in HeaderItems, g \in HeaderItems}

\* audit_json: without audit_data, with audit_data without a name, with a name
FilenameDocuments ==
    UNION {{ "header_items" :> h,
             ("header_items" :> h) @@ ("audit_data" :> NoFields) }
           \cup {("header_items" :> h) @@ ("audit_data" :> ("name" :> t)) : t \in Texts} :
           h \in HeaderItemSeqs}

\* str.replace('/', '_')
ReplaceSlashNowhere(s) == s
ReplaceSlash(s) == [i \in 1..Len(s) |-> IF s[i] = "/" THEN "_" ELSE s[i]]

\* str.strip()
RECURSIVE LStrip(_)
LStrip(s) == IF s # <<>> /\ Head(s) = " " THEN LStrip(Tail(s)) ELSE s

RECURSIVE RStrip(_)
RStrip(s) ==
    IF s # <<>> /\ s[Len(s)] = " " THEN RStrip(SubSeq(s, 1, Len(s) - 1)) ELSE s

Strip(s) == RStrip(LStrip(s))

\* a value, or None
Some(v) == [none |-> FALSE, value |-> v]

None == [none |-> TRUE, value |-> <<>>]

\* parse_export_filename: the loop over audit_json['header_items']
RECURSIVE ResponseOfItem(_, _)
ResponseOfItem(items, id) ==
    IF items = <<>> THEN None
    ELSE IF /\ Head(items)["item_id"] = id
            /\ "responses" \in DOMAIN Head(items)
            /\ "text" \in DOMAIN Head(items)["responses"]
            /\ Strip(Head(items)["responses"]["text"]) # <<>>
         THEN Some(Head(items)["responses"]["text"])
         ELSE ResponseOfItem(Tail(items), id)

ParseExportFilename(audit_json, filename_item_id) ==
    IF ~filename_item_id.given THEN None
    ELSE IF /\ filename_item_id.id = AuditTitleItemId
            /\ "audit_data" \in DOMAIN audit_json
            /\ "name" \in DOMAIN audit_json["audit_data"]
         THEN Some(ReplaceSlash(audit_json["audit_data"]["name"]))
         ELSE ResponseOfItem(audit_json["header_items"], filename_item_id.id)

\* process_audit: parse_export_filename(..) or audit_id
ExportFilename(audit_json, filename_item_id) ==
    LET parsed == ParseExportFilename(audit_json, filename_item_id)
    IN  IF parsed.none \/ parsed.value = <<>> THEN FilenameAuditId ELSE parsed.value

FilenameInit ==
    /\ MainIdle
    /\ PartVarsIdle
    /\ FileVarsIdle
    /\ TabularVarsIdle
    /\ loopRun = <<>>
    /\ mediaRun = <<>>
    /\ tableRun = <<>>
    /\ \E d \in FilenameDocuments, s \in FilenameItemIds :
          fileRun = [doc |-> d, setting |-> s, named |-> FALSE, filename |-> <<>>]

\* process_audit: export_filename is set
SetExportFilename ==
    /\ ~fileRun.named
    /\ fileRun' = [fileRun EXCEPT !.named = TRUE,
                                  !.filename = ExportFilename(fileRun.doc, fileRun.setting)]
    /\ UNCHANGED <<mainVars, partVars, fileVars, tabularVars, loopRun, mediaRun, tableRun>>

FilenameNext == SetExportFilename

FilenameSpec == FilenameInit /\ [][FilenameNext]_vars

\* ---------------------------------------------------------- the flat rows
\* The audit_table of two audits of one template, exported one after the
\* other as CSV, to the database and to the pickle file.

\* a cell: '' (the empty sentinel), NaN, or a number
EmptyCell == [type |-> "empty", v |-> 0]

NaN == [type |-> "nan", v |-> 0]

Num(n) == [type |-> "num", v |-> n]

\* the columns of a row that matter here; "0" is the first cell of the row
ScoreColumns == {"ItemScore", "ItemMaxScore", "ItemScorePercentage"}

TableColumns == {"0", "Latitude"} \cup ScoreColumns

TableRow(first, score, max, percentage, latitude) ==
    [c \in TableColumns |->
        IF c = "0" THEN first
        ELSE IF c = "ItemScore" THEN score
        ELSE IF c = "ItemMaxScore" THEN max
        ELSE IF c = "ItemScorePercentage" THEN percentage
        ELSE latitude]

\* the rows CsvExporter produces here: no score fields, all of them, a score
\* of zero alone with a latitude that is missing
FlatRows ==
    { TableRow(EmptyCell, EmptyCell, EmptyCell, EmptyCell, EmptyCell),
      TableRow(EmptyCell, Num(1), Num(2), Num(50), Num(3)),
      TableRow(Num(9), Num(0), EmptyCell, EmptyCell, NaN) }

\* csv_exporter.audit_table
AuditTables == UNION {[1..n -> FlatRows] : n \in 0..RowsPerAudit}

\* export_audit_csv: count += 1; row[0] = count
RenumberedFromZero(table) == [k \in 1..Len(table) |-> [table[k] EXCEPT !["0"] = Num(k - 1)]]
Renumbered(table) == [k \in 1..Len(table) |-> [table[k] EXCEPT !["0"] = Num(k)]]

\* df.replace({'ItemScore': '', 'ItemMaxScore': '', 'ItemScorePercentage': ''}, np.nan)
ReplacedKeepsEmpty(row) == row
Replaced(row) ==
    [c \in DOMAIN row |-> IF c \in ScoreColumns /\ row[c] = EmptyCell THEN NaN ELSE row[c]]

\* df.fillna
FillNa(row, columns, value) ==
    [c \in DOMAIN row |-> IF c \in columns /\ row[c] = NaN THEN value ELSE row[c]]

\* export_audit_sql: df.fillna(0, inplace=True), every column
SqlFillColumns == TableColumns

\* export_audit_pandas: df.fillna(value={'Latitude': 0, 'Longitude': 0})
PickleFillColumns == {"Latitude", "Longitude"}

\* export_audit_sql: df_dict; SortingIndex is range(1, len(df) + 1)
SqlRecords(table) ==
    [k \in 1..Len(table) |->
        [c \in TableColumns \cup {"SortingIndex"} |->
            IF c = "SortingIndex" THEN Num(k)
            ELSE FillNa(Replaced(table[k]), SqlFillColumns, Num(0))[c]]]

\* export_audit_pandas: the frame written by df.to_pickle
PickleFrame(table) ==
    [k \in 1..Len(table) |-> FillNa(Replaced(table[k]), PickleFillColumns, Num(0))]

\* the audits of the run, in the order the pass processes them
TableAudits == <<"first", "second">>

TableInit ==
    /\ MainIdle
    /\ PartVarsIdle
    /\ FileVarsIdle
    /\ TabularVarsIdle
    /\ loopRun = <<>>
    /\ mediaRun = <<>>
    /\ fileRun = <<>>
    /\ \E t \in [Range(TableAudits) -> AuditTables] :
          tableRun = [tables |-> t, at |-> 1, step |-> "csv", csv |-> <<>>,
                      csvOf |-> [a \in Range(TableAudits) |-> <<>>],
                      sqlOf |-> [a \in Range(TableAudits) |-> <<>>],
                      pickleOf |-> [a \in Range(TableAudits) |-> <<>>],
                      pickle |-> <<>>]

TableFrame == UNCHANGED <<mainVars, partVars, fileVars, tabularVars, loopRun, mediaRun, fileRun>>

TableAudit == TableAudits[tableRun.at]

\* export_audit_csv: the rows are numbered and appended to the file of the
\* template
TableExportAuditCsv ==
    /\ tableRun.at <= Len(TableAudits)
    /\ tableRun.step = "csv"
    /\ tableRun' = [tableRun EXCEPT
                        !.csv = @ \o Renumbered(tableRun.tables[TableAudit]),
                        !.csvOf[TableAudit] = Renumbered(tableRun.tables[TableAudit]),
                        !.step = "sql"]
    /\ TableFrame

\* export_audit_sql: the records handed to bulk_insert_mappings
TableExportAuditSql ==
    /\ tableRun.at <= Len(TableAudits)
    /\ tableRun.step = "sql"
    /\ tableRun' = [tableRun EXCEPT
                        !.sqlOf[TableAudit] = SqlRecords(tableRun.tables[TableAudit]),
                        !.step = "pickle"]
    /\ TableFrame

\* export_audit_pandas, 'pickle': df.to_pickle writes the frame of this audit
TableExportAuditPickle ==
    /\ tableRun.at <= Len(TableAudits)
    /\ tableRun.step = "pickle"
    /\ tableRun' = [tableRun EXCEPT
                        !.pickleOf[TableAudit] = PickleFrame(tableRun.tables[TableAudit]),
                        !.pickle = PickleFrame(tableRun.tables[TableAudit]),
                        !.step = "csv",
                        !.at = @ + 1]
    /\ TableFrame

TableNext ==
    \/ TableExportAuditCsv
    \/ TableExportAuditSql
    \/ TableExportAuditPickle

TableSpec == TableInit /\ [][TableNext]_vars

\* ------------------------------------------------------- the template filter
\* sync_exports: the discover_audits call made from settings[TEMPLATE_IDS],
\* settings[EXPORT_ARCHIVED] and settings[EXPORT_COMPLETED].

\* what a template_ids setting and a line of a list file are made of: single
\* characters, and the suffix '.txt' taken as one piece
FilterPieces == {"a", "b", ",", " ", ".txt"}

FilterStrings == UNION {[1..n -> FilterPieces] : n \in 0..MaxSettingLen}

\* settings[TEMPLATE_IDS]: None, or a string
TemplateIdSettings == {None} \cup {Some(s) : s \in FilterStrings}

\* settings[EXPORT_ARCHIVED], settings[EXPORT_COMPLETED]: None, or a boolean
NoFlag == [none |-> TRUE, value |-> FALSE]

Flag(v) == [none |-> FALSE, value |-> v]

FlagSettings == {NoFlag, Flag(TRUE), Flag(FALSE)}

\* the file a setting that ends with '.txt' names: missing, or its lines
NoListFile == [exists |-> FALSE, lines |-> <<>>]

ListFile(lines) == [exists |-> TRUE, lines |-> lines]

ListFiles ==
    { NoListFile,
      ListFile(<<>>),
      ListFile(<< <<"a">> >>),
      ListFile(<< <<"b">>, <<" ", "a", " ">> >>),
      ListFile(<< <<"a">>, <<>>, <<"a">> >>) }

\* len(s)
RECURSIVE StrLen(_)
StrLen(s) ==
    IF s = <<>> THEN 0 ELSE (IF Head(s) = ".txt" THEN 4 ELSE 1) + StrLen(Tail(s))

\* s.endswith('.txt')
EndsWithTxt(s) == s # <<>> /\ s[Len(s)] = ".txt"

\* s.split(",")
SplitNever(s) == <<s>>
RECURSIVE Split(_)
Split(s) ==
    IF \A i \in 1..Len(s) : s[i] # "," THEN <<s>>
    ELSE LET k == CHOOSE i \in 1..Len(s) : s[i] = "," /\ \A j \in 1..(i - 1) : s[j] # ","
         IN  <<SubSeq(s, 1, k - 1)>> \o Split(SubSeq(s, k + 1, Len(s)))

\* the loop over the lines of the file: ids_to_search.append(id.strip())
StrippedLines(lines) == [i \in 1..Len(lines) |-> Strip(lines[i])]

\* sync_exports: ids_to_search
IdsToSearch(s, file) ==
    IF EndsWithTxt(s) THEN StrippedLines(file.lines)
    ELSE IF StrLen(s) # 1 THEN Split(s)
    ELSE <<SubSeq(s, 1, 1)>>

\* sync_exports: archived_setting, completed_setting
ArchivedSetting(flag) == IF ~flag.none THEN flag.value ELSE FALSE

CompletedSetting(flag) == IF ~flag.none THEN flag.value ELSE TRUE

\* the keyword arguments of sc_client.discover_audits
DiscoverCall(setting, file, archived, completed) ==
    [template_id |-> IF setting.none THEN None ELSE Some(IdsToSearch(setting.value, file)),
     completed |-> CompletedSetting(completed),
     archived |-> ArchivedSetting(archived)]

NoCall == [template_id |-> None, completed |-> FALSE, archived |-> FALSE]

FilterInit ==
    /\ MainIdle
    /\ FileVarsIdle
    /\ TabularVarsIdle
    /\ FunctionVarsIdle
    /\ configRun = <<>>
    /\ flattenRun = <<>>
    /\ passRun = <<>>
    /\ bulkRun = <<>>
    /\ actionsRun = <<>>
    /\ \E setting \in TemplateIdSettings, file \in ListFiles, a, c \in FlagSettings :
        /\ (file.exists => ~setting.none /\ EndsWithTxt(setting.value))
        /\ filterRun = [setting |-> setting, file |-> file, archived |-> a,
                        completed |-> c, pc |-> "start", call |-> NoCall]

FilterFrame ==
    UNCHANGED <<mainVars, fileVars, tabularVars, functionVars, configRun, flattenRun,
                passRun, bulkRun, actionsRun>>

\* sync_exports from get_last_successful to the call of discover_audits;
\* open(file, "r") raises when the list file is missing
SyncExportsDiscovers ==
    /\ filterRun.pc = "start"
    /\ IF /\ ~filterRun.setting.none
          /\ EndsWithTxt(filterRun.setting.value)
          /\ ~filterRun.file.exists
       THEN filterRun' = [filterRun EXCEPT !.pc = "raised"]
       ELSE filterRun' =
                [filterRun EXCEPT !.pc = "called",
                                  !.call = DiscoverCall(filterRun.setting, filterRun.file,
                                                        filterRun.archived,
                                                        filterRun.completed)]
    /\ FilterFrame

FilterNext == SyncExportsDiscovers

FilterSpec == FilterInit /\ [][FilterNext]_vars

\* ------------------------------------------------------------ configuration
\* main up to the first call of sync_exports: load_config_settings, from the
\* YAML file or, with --docker, from the environment, then configure, which
\* constructs the client of the remote platform.

DefaultSyncDelayInSeconds == 900

DefaultMediaSyncOffsetInSeconds == 600

\* a value of the configuration file or of the environment: a missing key, None,
\* an integer, a string, a float or a boolean
Raw(type, num, text) == [type |-> type, num |-> num, text |-> text]

IntValue(n) == Raw("int", n, "")

YamlValues ==
    { Raw("missing", 0, ""), Raw("none", 0, ""), IntValue(-1), IntValue(0), IntValue(5),
      Raw("str", 0, "5"), Raw("str", 0, "abc"), Raw("float", 0, "1.5"),
      Raw("bool", 0, "True") }

\* os.environ[..]: a missing variable, or a string
EnvValues ==
    { Raw("missing", 0, ""), Raw("str", 0, ""), Raw("str", 0, "5"), Raw("str", 0, "-5"),
      Raw("str", 0, "abc") }

\* config_settings['API']['token'], os.environ['API_TOKEN']: a missing key, None,
\* or a string, of which the length and whether every character is in [a-f0-9]
\* are kept
Token(type, len, hex) == [type |-> type, len |-> len, hex |-> hex]

NoToken == Token("none", 0, FALSE)

TokenLength == 64

YamlTokens ==
    { Token("missing", 0, FALSE), NoToken, Token("str", TokenLength, TRUE),
      Token("str", TokenLength, FALSE), Token("str", TokenLength - 1, TRUE) }

EnvTokens == {t \in YamlTokens : t.type # "none"}

\* re.match('^[a-f0-9]{64}$', api_token)
TokenIsValid(t) == t.type = "str" /\ t.len = TokenLength /\ t.hex

\* load_setting_api_access_token, docker_load_setting_api_access_token: the
\* token, or None; no key and None raise inside the try
LoadSettingApiAccessToken(t) == IF TokenIsValid(t) THEN t ELSE NoToken

\* re.match('^[0-9]+$', str(sync_delay))
SyncDelayIsValid(v) ==
    \/ v.type = "int" /\ v.num >= 0
    \/ v.type = "str" /\ v.text = "5"

\* load_setting_sync_delay: a missing key raises inside the try, and so does
\* sync_delay >= 0 on a string
LoadSettingSyncDelay(v) ==
    IF v.type = "missing" THEN IntValue(DefaultSyncDelayInSeconds)
    ELSE IF SyncDelayIsValid(v)
         THEN IF v.type = "str" THEN IntValue(DefaultSyncDelayInSeconds)
              ELSE IF v.num >= 0 THEN v ELSE IntValue(DefaultSyncDelayInSeconds)
         ELSE IntValue(DefaultSyncDelayInSeconds)

\* load_setting_media_sync_offset: a missing key raises inside the try, and so
\* does media_sync_offset < 0 on a string; a boolean is an instance of int
LoadSettingMediaSyncOffset(v) ==
    IF v.type \in {"missing", "str"} THEN IntValue(DefaultMediaSyncOffsetInSeconds)
    ELSE IF \/ v.type = "none"
            \/ v.type = "int" /\ v.num < 0
            \/ ~(v.type \in {"int", "bool"})
         THEN IntValue(DefaultMediaSyncOffsetInSeconds)
         ELSE v

\* int(os.environ[..]): the integer, or KeyError, or ValueError
IntRaises(v) == v.type = "missing" \/ ~(v.text \in {"5", "-5"})

IntOf(v) == IF v.text = "5" THEN IntValue(5) ELSE IntValue(-5)

NoSettings == [token |-> NoToken, delay |-> IntValue(0), offset |-> IntValue(0)]

\* load_config_settings: the settings, or the entry of the dictionary whose
\* evaluation raises
LoadConfigSettings(docker, token, delay, offset) ==
    IF docker
    THEN IF token.type = "missing" THEN [raised |-> "token", settings |-> NoSettings]
         ELSE IF IntRaises(delay) THEN [raised |-> "delay", settings |-> NoSettings]
         ELSE IF IntRaises(offset) THEN [raised |-> "offset", settings |-> NoSettings]
         ELSE [raised |-> "none",
               settings |-> [token |-> LoadSettingApiAccessToken(token),
                             delay |-> IntOf(delay), offset |-> IntOf(offset)]]
    ELSE [raised |-> "none",
          settings |-> [token |-> LoadSettingApiAccessToken(token),
                        delay |-> LoadSettingSyncDelay(delay),
                        offset |-> LoadSettingMediaSyncOffset(offset)]]

\* sp.SafetyCulture(api_token): the constructor ends the process when it is
\* given no valid token
SafetyCultureExits(token) == ~TokenIsValid(token)

ConfigInit ==
    /\ MainIdle
    /\ FileVarsIdle
    /\ TabularVarsIdle
    /\ FunctionVarsIdle
    /\ filterRun = <<>>
    /\ flattenRun = <<>>
    /\ passRun = <<>>
    /\ bulkRun = <<>>
    /\ actionsRun = <<>>
    /\ \E docker \in BOOLEAN :
       \E token \in (IF docker THEN EnvTokens ELSE YamlTokens) :
       \E delay, offset \in (IF docker THEN EnvValues ELSE YamlValues) :
          configRun = [docker |-> docker, token |-> token, delay |-> delay,
                       offset |-> offset, pc |-> "start", raised |-> "none",
                       settings |-> NoSettings, discoveries |-> 0]

ConfigFrame ==
    UNCHANGED <<mainVars, fileVars, tabularVars, functionVars, filterRun, flattenRun,
                passRun, bulkRun, actionsRun>>

\* configure: load_config_settings; an exception leaves configure and main
ConfigureLoads ==
    /\ configRun.pc = "start"
    /\ LET loaded == LoadConfigSettings(configRun.docker, configRun.token,
                                        configRun.delay, configRun.offset)
       IN  configRun' = [configRun EXCEPT
                            !.pc = IF loaded.raised = "none" THEN "loaded" ELSE "raised",
                            !.raised = loaded.raised,
                            !.settings = loaded.settings]
    /\ ConfigFrame

\* configure: sp.SafetyCulture(config_settings[API_TOKEN]) and the rest
ConfigureConstructsClient ==
    /\ configRun.pc = "loaded"
    /\ configRun' = [configRun EXCEPT
                        !.pc = IF SafetyCultureExits(configRun.settings.token)
                               THEN "exited" ELSE "configured"]
    /\ ConfigFrame

\* main: sync_exports, straight away or from loop, and its discover_audits
ConfiguredSyncExports ==
    /\ configRun.pc = "configured"
    /\ configRun' = [configRun EXCEPT !.pc = "synced", !.discoveries = 1]
    /\ ConfigFrame

ConfigNext ==
    \/ ConfigureLoads
    \/ ConfigureConstructsClient
    \/ ConfiguredSyncExports

ConfigSpec == ConfigInit /\ [][ConfigNext]_vars

\* ------------------------------------------------------------ the flattener
\* csvExporter.CsvExporter(audit_json, settings[EXPORT_INACTIVE_ITEMS_TO_CSV]):
\* every exporter of tabular rows makes a CsvExporter of its own and reads its
\* audit_table.

DefaultExportInactiveItemsToCsv == TRUE

\* config_settings['export_options']: merge_rows, and export_inactive_items,
\* which is a boolean, something else, or missing
ExportOptions ==
    [merge_rows : BOOLEAN, export_inactive_items : {"True", "False", "yes", "missing"}]

\* load_export_inactive_items_to_csv
LoadExportInactiveItemsToCsv(options) ==
    IF options.merge_rows THEN TRUE
    ELSE IF options.export_inactive_items = "True" THEN TRUE
    ELSE IF options.export_inactive_items = "False" THEN FALSE
    ELSE DefaultExportInactiveItemsToCsv

\* an item of an audit document: a question, or a section with its questions
Question(id, inactive) ==
    [item_id |-> id, type |-> "question", inactive |-> inactive, children |-> <<>>]

Section(id, inactive, children) ==
    [item_id |-> id, type |-> "section", inactive |-> inactive, children |-> children]

\* the items below the header; every item of a deactivated section is inactive
FlattenItemChoices ==
    { Question("q1", FALSE),
      Question("q2", TRUE),
      Section("s1", FALSE, <<Question("q3", FALSE), Question("q4", TRUE)>>),
      Section("s2", TRUE, <<Question("q5", TRUE), Question("q6", TRUE)>>),
      Section("s3", FALSE, <<>>) }

FlattenDocuments ==
    [header_items : {<<Question("title", FALSE)>>},
     items : UNION {[1..n -> FlattenItemChoices] : n \in 0..MaxItems}]

\* the row of an item: its first cell, which export_audit_csv numbers, the item
\* id and the inactive flag
ItemRow(item) ==
    [c \in {"0", "ItemID", "Inactive"} |->
        IF c = "0" THEN EmptyCell
        ELSE IF c = "ItemID" THEN [type |-> item.item_id, v |-> 0]
        ELSE [type |-> IF item.inactive THEN "true" ELSE "false", v |-> 0]]

\* the pre-order walk: one row for each item that is not a container, unless it
\* is inactive and inactive items are not exported
RECURSIVE FlattenItems(_, _)
FlattenItems(items, include) ==
    IF items = <<>> THEN <<>>
    ELSE LET item == Head(items)
         IN  (IF item.type = "section" THEN FlattenItems(item.children, include)
              ELSE IF item.inactive /\ ~include THEN <<>>
              ELSE <<ItemRow(item)>>)
             \o FlattenItems(Tail(items), include)

\* flatten(audit_document, include_inactive): header_items, then items
Flatten(doc, include) == FlattenItems(doc.header_items \o doc.items, include)

\* csv_exporter.audit_table of the CsvExporter an exporter has just made;
\* instance is the audit_table the exporter before it left behind
CsvExporterTableReused(instance, doc, include) ==
    IF instance # <<>> THEN instance ELSE Flatten(doc, include)
CsvExporterTableOfAllItems(instance, doc, include) == Flatten(doc, TRUE)
CsvExporterTable(instance, doc, include) == Flatten(doc, include)

FlattenInit ==
    /\ MainIdle
    /\ FileVarsIdle
    /\ TabularVarsIdle
    /\ FunctionVarsIdle
    /\ filterRun = <<>>
    /\ configRun = <<>>
    /\ passRun = <<>>
    /\ bulkRun = <<>>
    /\ actionsRun = <<>>
    /\ \E doc \in FlattenDocuments, options \in ExportOptions :
        flattenRun = [doc |-> doc, include |-> LoadExportInactiveItemsToCsv(options),
                      now |-> 0, instance |-> <<>>, tables |-> <<>>]

FlattenFrame ==
    UNCHANGED <<mainVars, fileVars, tabularVars, functionVars, filterRun, configRun,
                passRun, bulkRun, actionsRun>>

\* an exporter makes its CsvExporter and reads audit_table
Flattened(after) ==
    LET table == CsvExporterTable(flattenRun.instance, flattenRun.doc, flattenRun.include)
    IN  /\ Len(flattenRun.tables) < MaxInvocations
        /\ flattenRun' =
              [flattenRun EXCEPT
                  !.tables = Append(@, [include |-> flattenRun.include,
                                        at |-> flattenRun.now, table |-> table]),
                  !.instance = IF after = "csv" THEN Renumbered(table) ELSE table]
        /\ FlattenFrame

\* export_audit_csv, which numbers the rows of its audit_table
FlattenExportAuditCsv == Flattened("csv")

\* export_audit_sql, which copies audit_table into a data frame
FlattenExportAuditSql == Flattened("sql")

\* export_audit_pandas, 'pickle': the same
FlattenExportAuditPickle == Flattened("pickle")

\* wall-clock time passes
FlattenTick ==
    /\ flattenRun.now < MaxInvocations
    /\ flattenRun' = [flattenRun EXCEPT !.now = @ + 1]
    /\ FlattenFrame

\* the operator changes export_options and starts the tool again
FlattenReconfigured ==
    /\ flattenRun.tables # <<>>
    /\ \E options \in ExportOptions :
        /\ LoadExportInactiveItemsToCsv(options) # flattenRun.include
        /\ flattenRun' = [flattenRun EXCEPT
                              !.include = LoadExportInactiveItemsToCsv(options),
                              !.instance = <<>>]
    /\ FlattenFrame

FlattenNext ==
    \/ FlattenExportAuditCsv
    \/ FlattenExportAuditSql
    \/ FlattenExportAuditPickle
    \/ FlattenTick
    \/ FlattenReconfigured

FlattenSpec == FlattenInit /\ [][FlattenNext]_vars

\* ------------------------------------------------------- the loop over the audits
\* sync_exports from get_last_successful to its return, with a discovery result
\* in which the remote platform may list an audit more than once.

\* list_of_audits['audits']: any sequence of audits
DiscoveryResults == UNION {[1..n -> Audits] : n \in 0..MaxResults}

\* how a call of process_audit ends: the gate stops the audit, the audit is
\* exported and the marker written, an exception leaves it, or sys.exit
ProcessAuditOutcomes == {"stopped", "exported", "raised", "exit"}

\* for audit in list_of_audits['audits']: the entries the loop goes through
AuditsToProcessOnce(result) ==
    SelectSeq([i \in 1..Len(result) |->
                  IF \E j \in 1..(i - 1) : result[j] = result[i] THEN 0 ELSE result[i]],
              LAMBDA a : a # 0)
AuditsToProcess(result) == result

PassInit ==
    /\ MainIdle
    /\ FileVarsIdle
    /\ TabularVarsIdle
    /\ FunctionVarsIdle
    /\ filterRun = <<>>
    /\ configRun = <<>>
    /\ flattenRun = <<>>
    /\ bulkRun = <<>>
    /\ actionsRun = <<>>
    /\ \E result \in DiscoveryResults, some \in BOOLEAN, m \in {Epoch, 1} :
        /\ (~some => result = <<>>)
        /\ passRun = [result |-> result, found |-> some, marker |-> m, pc |-> "start",
                      reads |-> 0, after |-> Epoch, todo |-> <<>>, calls |-> <<>>]

PassFrame ==
    UNCHANGED <<mainVars, fileVars, tabularVars, functionVars, filterRun, configRun,
                flattenRun, bulkRun, actionsRun>>

\* sync_exports: get_last_successful, discover_audits, and the setup of the
\* tabular sinks; discover_audits may return None
PassDiscovers ==
    /\ passRun.pc = "start"
    /\ passRun' = [passRun EXCEPT
                      !.reads = @ + 1,
                      !.after = passRun.marker,
                      !.todo = IF passRun.found THEN AuditsToProcess(passRun.result) ELSE <<>>,
                      !.pc = IF passRun.found THEN "loop" ELSE "returned"]
    /\ PassFrame

\* one iteration of the loop: process_audit(logger, settings, sc_client, audit,
\* get_started), which writes the marker when it has exported the audit
PassProcessAudit ==
    /\ passRun.pc = "loop"
    /\ passRun.todo # <<>>
    /\ \E o \in ProcessAuditOutcomes :
        passRun' = [passRun EXCEPT
                      !.calls = Append(@, Head(passRun.todo)),
                      !.todo = Tail(@),
                      !.marker = IF o = "exported" THEN Head(passRun.todo) ELSE @,
                      !.pc = IF o \in {"stopped", "exported"} THEN "loop"
                             ELSE IF o = "raised" THEN "raised" ELSE "exited"]
    /\ PassFrame

\* the loop is over and sync_exports returns
PassReturns ==
    /\ passRun.pc = "loop"
    /\ passRun.todo = <<>>
    /\ passRun' = [passRun EXCEPT !.pc = "returned"]
    /\ PassFrame

PassNext ==
    \/ PassDiscovers
    \/ PassProcessAudit
    \/ PassReturns

PassSpec == PassInit /\ [][PassNext]_vars

\* sync_exports is straight-line code and a loop over a list: it goes on until
\* it returns or the process ends
PassFairSpec == PassSpec /\ WF_vars(PassNext)

\* ------------------------------------------------------ the bulk export files
\* export_audit_csv: the file of settings[EXPORT_PATH] the rows of an audit are
\* appended to, chosen from settings[USE_REAL_TEMPLATE_NAME].

\* settings[USE_REAL_TEMPLATE_NAME]: a boolean, a string, None or a number
UseRealTemplateNameSettings ==
    { Raw("bool", 0, "True"), Raw("bool", 0, "False"), Raw("str", 0, "single_file"),
      Raw("str", 0, "single_file_per_config"), Raw("str", 0, "true"), Raw("str", 0, ""),
      Raw("none", 0, ""), IntValue(1) }

\* settings[USE_REAL_TEMPLATE_NAME].startswith('single_file'), on a string
StartsWithSingleFile(text) == text \in {"single_file", "single_file_per_config"}

\* settings[CONFIG_NAME]
BulkConfigName == <<"iauditor">>

\* audit_json: template_id and template_data.metadata.name
BulkDocuments ==
    [audit_id : {"a1", "a2"}, template_id : {"t1", "t2"},
     name : {<<"A">>, <<"A", "/", "B">>, <<"\\", "A">>}]

\* .replace('/', ' ').replace('\\', ' ')
ReplaceSeparators(s) ==
    [i \in 1..Len(s) |-> IF s[i] \in {"/", "\\"} THEN " " ELSE s[i]]

\* export_audit_csv: csv_export_filename, or the exception the choice raises
CsvExportFilename(setting, doc) ==
    IF setting.type = "bool" /\ setting.text = "False" THEN Some(<<doc.template_id>>)
    ELSE IF setting.type = "bool" /\ setting.text = "True"
    THEN Some(ReplaceSeparators(doc.name \o <<" - ", doc.template_id>>))
    ELSE IF setting.type # "str" THEN None
    ELSE IF StartsWithSingleFile(setting.text) THEN Some(BulkConfigName)
    ELSE Some(<<doc.template_id>>)

\* os.path.join(settings[EXPORT_PATH], csv_export_filename + '.csv')
BulkExportPath(filename) == <<"exports", "/">> \o filename \o <<".csv">>

BulkInit ==
    /\ MainIdle
    /\ FileVarsIdle
    /\ TabularVarsIdle
    /\ FunctionVarsIdle
    /\ filterRun = <<>>
    /\ configRun = <<>>
    /\ flattenRun = <<>>
    /\ passRun = <<>>
    /\ actionsRun = <<>>
    /\ \E setting \in UseRealTemplateNameSettings :
        bulkRun = [setting |-> setting, files |-> {}, exports |-> <<>>, pc |-> "ready"]

BulkFrame ==
    UNCHANGED <<mainVars, fileVars, tabularVars, functionVars, filterRun, configRun,
                flattenRun, passRun, actionsRun>>

\* export_audit_csv(settings, audit_json): the rows of the audit go to the end
\* of the chosen file; an exception leaves export_audit_csv and process_audit
BulkExportAuditCsv ==
    /\ bulkRun.pc = "ready"
    /\ Len(bulkRun.exports) < MaxCsvExports
    /\ \E doc \in BulkDocuments :
        LET filename == CsvExportFilename(bulkRun.setting, doc)
        IN  IF filename.none
            THEN bulkRun' = [bulkRun EXCEPT
                                !.exports = Append(@, [doc |-> doc, paths |-> {}]),
                                !.pc = "raised"]
            ELSE bulkRun' =
                    [bulkRun EXCEPT
                        !.exports = Append(@, [doc |-> doc,
                                               paths |-> {BulkExportPath(filename.value)}]),
                        !.files = @ \cup {[path |-> BulkExportPath(filename.value),
                                           audit |-> doc.audit_id,
                                           at |-> Len(bulkRun.exports) + 1]}]
    /\ BulkFrame

BulkNext == BulkExportAuditCsv

BulkSpec == BulkInit /\ [][BulkNext]_vars

\* ------------------------------------------------------- the action exports
\* sync_exports, the two action exports of a pass: 'actions-sql' to the
\* database, then 'actions' to the CSV file, each a call of export_actions.

\* settings[EXPORT_FORMATS] values exercised here
ActionsConfigs ==
    { <<"actions-sql">>, <<"actions">>, <<"actions-sql", "actions">>,
      <<"actions", "actions-sql">>, <<"actions", "pdf">> }

\* sync_exports: the calls of export_actions it makes, in its own order
ActionExports(fmts) ==
    (IF "actions-sql" \in Range(fmts) THEN <<"actions-sql">> ELSE <<>>)
    \o (IF "actions" \in Range(fmts) THEN <<"actions">> ELSE <<>>)

\* session.bulk_insert_mappings(actions_db, df_dict) and what follows it
ActionsBulkInsertOutcomes == {"ok", "operational", "integrity", "interrupt"}

\* save_exported_actions_to_db: the rows the database holds after it; a
\* conflict is merged row by row, a transport error only rolled back
ActionsSavedToDb(rows, array, o) ==
    IF array = {} THEN rows
    ELSE IF o \in {"ok", "integrity"} THEN rows \cup array
    ELSE rows

\* save_exported_actions_to_csv_file: the rows of the file after it
ActionsSavedToCsv(rows, array) == rows \cup array

ActionsInit ==
    /\ MainIdle
    /\ FileVarsIdle
    /\ TabularVarsIdle
    /\ FunctionVarsIdle
    /\ filterRun = <<>>
    /\ configRun = <<>>
    /\ flattenRun = <<>>
    /\ passRun = <<>>
    /\ bulkRun = <<>>
    /\ \E fmts \in ActionsConfigs, m \in {NoFile, FileWith(1)}, t \in {NumActions, NumActions + 1} :
        actionsRun = [fmts |-> fmts, todo |-> ActionExports(fmts), marker |-> m, now |-> t,
                      pc |-> "start", dbRows |-> {}, csvRows |-> {}, log |-> <<>>]

ActionsFrame ==
    UNCHANGED <<mainVars, fileVars, tabularVars, functionVars, filterRun, configRun,
                flattenRun, passRun, bulkRun>>

\* sync_exports: sql_setup(logger, settings, 'actions') before the export to
\* the database; it returns the table or ends the process
ActionsSqlSetup ==
    /\ actionsRun.pc = "start"
    /\ actionsRun.todo # <<>>
    /\ Head(actionsRun.todo) = "actions-sql"
    /\ \E o \in {"complete", "exit"} :
        actionsRun' = [actionsRun EXCEPT !.pc = IF o = "complete" THEN "export" ELSE "exited"]
    /\ ActionsFrame

\* the record of one call of export_actions
ExportRecord(sink, after, r, o, before, left, rows) ==
    [sink |-> sink, after |-> after, found |-> r.found, batch |-> r.actions,
     outcome |-> o, before |-> before, marker |-> left, rows |-> rows]

\* export_actions(logger, settings, sc_client, get_started): the watermark is
\* read, the actions modified after it are fetched and saved, and the marker is
\* written with the time of the export
ActionsExport ==
    /\ actionsRun.todo # <<>>
    /\ \/ actionsRun.pc = "export"
       \/ actionsRun.pc = "start" /\ Head(actionsRun.todo) = "actions"
    /\ LET sink == Head(actionsRun.todo)
           before == LastSuccessfulActionsExportFile(actionsRun.marker)
           after == LastSuccessfulActionsExport(actionsRun.marker)
           written == FileWith(ActionsMarkerValue(actionsRun.now, ActionModified, {}))
       IN  \E r \in GetAuditActions(ActionModified, after) :
           \E o \in (IF r.found /\ r.actions # {} /\ sink = "actions-sql"
                     THEN ActionsBulkInsertOutcomes ELSE {"ok"}) :
              actionsRun' =
                 [actionsRun EXCEPT
                    !.todo = Tail(@),
                    !.dbRows = IF r.found /\ sink = "actions-sql"
                               THEN ActionsSavedToDb(@, r.actions, o) ELSE @,
                    !.csvRows = IF r.found /\ sink = "actions"
                                THEN ActionsSavedToCsv(@, r.actions) ELSE @,
                    !.marker = IF r.found /\ o # "interrupt" THEN written ELSE before,
                    !.log = Append(@, ExportRecord(sink, after, r, o, before,
                                      IF r.found /\ o # "interrupt" THEN written ELSE before,
                                      IF ~r.found THEN {}
                                      ELSE IF sink = "actions"
                                      THEN ActionsSavedToCsv({}, r.actions)
                                      ELSE ActionsSavedToDb({}, r.actions, o))),
                    !.pc = IF o = "interrupt" THEN "exited" ELSE "start"]
    /\ ActionsFrame

\* sync_exports goes on to the audits, or returns
ActionsDone ==
    /\ actionsRun.pc = "start"
    /\ actionsRun.todo = <<>>
    /\ actionsRun' = [actionsRun EXCEPT !.pc = "audits"]
    /\ ActionsFrame

ActionsNext ==
    \/ ActionsSqlSetup
    \/ ActionsExport
    \/ ActionsDone

ActionsSpec == ActionsInit /\ [][ActionsNext]_vars

\* ------------------------------------------------------------------ claims
Last(s) == s[Len(s)]

PassCompleted == pc = "sleep" /\ found = "result"

PassAborted ==
    /\ pc = "dead"
    /\ cause \in {"interrupt", "interrupt_in_audit", "interrupt_in_write", "fetch_error",
                  "exit"}

\* C1: after a full pass over audits with strictly increasing modification
\* times, all of them exported in that order, the marker file holds the last
\* one's modified_at; after a pass aborted once audit k was exported and before
\* audit k+1 completed, it holds the modified_at of audit k.
C1_WatermarkAfterPass ==
    /\ (PassCompleted /\ list # <<>> /\ StrictlyIncreasing(modified, list) /\ done = list)
            => marker = FileWith(modified[Last(list)])
    /\ (PassAborted /\ StrictlyIncreasing(modified, list) /\ done # <<>>)
            => marker = FileWith(modified[Last(done)])

\* The same statement with the aborts that fall inside update_sync_marker_file
\* (between the open and the write) left out.
C1_OutsideTheWrite ==
    /\ (PassCompleted /\ list # <<>> /\ StrictlyIncreasing(modified, list) /\ done = list)
            => marker = FileWith(modified[Last(list)])
    /\ (PassAborted /\ StrictlyIncreasing(modified, list) /\ done # <<>>
            /\ cause # "interrupt_in_write")
            => marker = FileWith(modified[Last(done)])

\* C2: update_sync_marker_file is called for an audit only once the format loop
\* is over and the exporter of every configured format has been invoked; while
\* the loop is running no marker write of that audit has happened.
C2_WriteAfterAllFormats ==
    /\ wmWrites > 0 =>
          /\ fi > Len(formats)
          /\ \A i \in 1..Len(formats) :
                IsExportable(formats[i]) => formats[i] \in Range(calls)
    /\ (pc = "formats" /\ fi <= Len(formats)) => wmWrites = 0

C2_Witness ==
    /\ wmWrites = 1
    /\ Len(formats) = 2
    /\ Len(calls) >= 2
    /\ marker = FileWith(modified[CurrentAudit])

\* C3 (as claimed): an audit whose export was cut short keeps the marker at the
\* value it had when the audit was started, which is the modified_at of the
\* audit exported before it, and a later pass that runs to its end has
\* discovered and exported it again.
C3_ReExportAnyOrder ==
    /\ (pc = "dead" /\ cause = "interrupt_in_audit")
         => /\ marker = wmAudit
            /\ done # <<>> => marker = FileWith(modified[Last(done)])
    /\ PassCompleted => \A a \in Audits : hist[a] # "interrupted"

\* C3 (amended): the same, for discovery results that come in non-decreasing
\* order of modified_at.
C3_ReExportInOrder ==
    /\ (pc = "dead" /\ cause = "interrupt_in_audit")
         => /\ marker = wmAudit
            /\ done # <<>> => marker = FileWith(modified[Last(done)])
    /\ (PassCompleted /\ ordered) => \A a \in Audits : hist[a] # "interrupted"

C3_Witness ==
    /\ PassCompleted
    /\ ordered
    /\ \E a \in Audits : hist[a] = "recovered" /\ a \in Range(done)

\* C4: a remote fetch that fails while an audit is processed ends the process
\* there (the exception leaves process_audit, so no later format runs) and the
\* marker file is the one the audit was started with.
C4_FetchFailurePropagates ==
    "fetch" \in failures =>
        /\ pc = "dead"
        /\ cause = "fetch_error"
        /\ marker = wmAudit
        /\ wmWrites = 0

C4_Witness ==
    /\ "fetch" \in failures
    /\ pc = "dead"
    /\ calls # <<>>
    /\ fi < Len(formats)
    /\ done # <<>>

\* update_sync_marker_file has run to its end for the current audit
MarkerWrittenForAudit == wmWrites > 0 /\ marker # EmptyFile

\* C5: when the local write of an exporter failed for an audit, the marker is
\* not advanced to that audit's modified_at.
C5_NoAdvanceAfterWriteFailure == "write" \in failures => ~MarkerWrittenForAudit

\* C6: when the bulk insert of an audit raised OperationalError, the marker is
\* not advanced to that audit's modified_at.
C6_NoAdvanceAfterOperationalError == "operational" \in failures => ~MarkerWrittenForAudit

\* C7 (as claimed): the readiness gate stops an audit exactly when the time
\* elapsed since its modified_at is less than the media-sync offset, so an audit
\* whose elapsed time equals the offset goes through.
C7_GateSkipsIffLess ==
    gate.audit \in Audits =>
        (gate.audit \in skipped <=> gate.elapsed < MediaSyncOffset)

\* C7 (amended): the readiness gate stops an audit exactly when the time elapsed
\* since its modified_at is not greater than the media-sync offset; an audit
\* whose elapsed time equals the offset is stopped.
C7_GateSkipsIffNotGreater ==
    gate.audit \in Audits =>
        /\ gate.audit \in skipped <=> gate.elapsed <= MediaSyncOffset
        /\ gate.audit \in skipped <=> ~gate.ok

C7_Witness ==
    /\ gate.audit \in skipped
    /\ gate.elapsed = MediaSyncOffset
    /\ \E a \in Range(done) : now - modified[a] > MediaSyncOffset

\* C8: at the end of a pass the watermark is not later than the modified_at of
\* any audit the readiness gate stopped in that pass.
C8_SkippedStaysCandidate ==
    PassCompleted => \A a \in skipped : LastSuccessful(marker) <= modified[a]

\* C9: a pass whose discovery returned nothing or an empty list invokes no
\* exporter, fetches no audit document and leaves the watermark at the value
\* it had before the pass.
C9_EmptyDiscovery ==
    (pc = "sleep" /\ found \in {"none", "result"} /\ list = <<>>) =>
        /\ ~worked
        /\ done = <<>>
        /\ ~LastSuccessfulRaises(marker)
        /\ LastSuccessful(marker) = wmPass

C9_Witness ==
    /\ pc = "sleep"
    /\ found = "result"
    /\ list = <<>>
    /\ marker = FileWith(MaxModified + 1)
    /\ wmPass = MaxModified + 1

\* C10: when the format loop of an audit is over, the exporters invoked for it
\* are the configured formats, once each, in configuration order.
C10_EachFormatOnce ==
    (pc \in {"formats", "write"} /\ fi > Len(formats)) =>
        calls = SelectSeq(formats, IsExportable)

\* C11: once an audit has been exported a second time, the export directory
\* (documents, media, the tabular file and the link-record file) is what it
\* was after the first export.
C11_ReExportLeavesSinks ==
    sinkRun # <<>> => (sinkRun.exports >= 2 => sinkFiles = sinkRun.once)

\* the step in which sync_exports calls get_last_successful
AuditsReadStep ==
    /\ \/ pc = "audits"
       \/ pc \in {"start", "sleep"} /\ ~("actions" \in Range(formats))
    /\ Range(formats) \cap AuditFormats # {}
    /\ now' = now
    /\ cause' # "interrupt"

\* the step in which export_actions calls get_last_successful_actions_export
ActionsReadStep ==
    /\ pc \in {"start", "sleep"}
    /\ "actions" \in Range(formats)
    /\ now' = now

\* C12: a read of a stream that has no marker file returns the sentinel and
\* leaves a marker file holding it; a read of a stream whose marker file holds
\* a value returns that value and leaves the file as it was. Both streams.
C12_ReadSentinelOrStored ==
    [][ /\ (AuditsReadStep /\ ~marker.exists) =>
              wmPass' = Epoch /\ marker' = FileWith(Epoch)
        /\ (AuditsReadStep /\ marker.exists /\ marker.content # <<>>) =>
              wmPass' = marker.content[1] /\ marker' = marker
        /\ (ActionsReadStep /\ ~actionsMarker.exists) =>
              /\ pc' = "actions"
              /\ lastActions' = Epoch
              /\ actionsMarker' = FileWith(Epoch)
        /\ (ActionsReadStep /\ actionsMarker.exists /\ actionsMarker.content # <<>>) =>
              /\ pc' = "actions"
              /\ lastActions' = actionsMarker.content[1]
              /\ actionsMarker' = actionsMarker ]_vars

\* The same statement for the reads that find the directory 'last_successful'.
C12_ReadWithDirectory ==
    [][ /\ (AuditsReadStep /\ ~marker.exists) =>
              wmPass' = Epoch /\ marker' = FileWith(Epoch)
        /\ (AuditsReadStep /\ marker.exists /\ marker.content # <<>>) =>
              wmPass' = marker.content[1] /\ marker' = marker
        /\ (ActionsReadStep /\ ~actionsMarker.exists /\ lsDir) =>
              /\ pc' = "actions"
              /\ lastActions' = Epoch
              /\ actionsMarker' = FileWith(Epoch)
        /\ (ActionsReadStep /\ actionsMarker.exists /\ actionsMarker.content # <<>>) =>
              /\ pc' = "actions"
              /\ lastActions' = actionsMarker.content[1]
              /\ actionsMarker' = actionsMarker ]_vars

\* C13: a marker write that fails ends the process where it stands: for the
\* audits stream the exception leaves the pass with the audit's one write
\* attempted, the marker file as the audit found it and no later audit of the
\* pass started; for the actions stream the process exits.
C13_MarkerWriteFailureIsFatal ==
    /\ "marker" \in failures =>
          /\ pc = "dead"
          /\ cause = "marker_error"
          /\ wmWrites = 1
          /\ marker = wmAudit
          /\ ~(CurrentAudit \in Range(done))
    /\ "actions_marker" \in failures =>
          /\ pc = "dead"
          /\ cause = "exit"
          /\ actionsMarker # EmptyFile

C13_Witness ==
    /\ "marker" \in failures
    /\ pc = "dead"
    /\ calls # <<>>
    /\ idx < Len(list)

\* C14: when the process is interrupted inside a marker write, the next read
\* of that stream does not fail, and for the audits stream it returns the value
\* the file held before the write or the value being written.
C14_WriteIsAtomic ==
    /\ (pc = "dead" /\ cause = "interrupt_in_write") =>
          /\ ~LastSuccessfulRaises(marker)
          /\ marker \in {wmAudit, FileWith(modified[CurrentAudit])}
    /\ (pc = "dead" /\ cause = "interrupt_in_actions_write") =>
          ~LastSuccessfulActionsExportRaises(actionsMarker, lsDir)

\* the steps of the audit export, and the steps of export_actions
AuditsPhase ==
    \/ pc \in {"audits", "loop", "fetch", "formats", "write"}
    \/ pc \in {"start", "sleep"} /\ ~("actions" \in Range(formats))

ActionsPhase ==
    \/ pc \in {"actions", "awrite"}
    \/ pc \in {"start", "sleep"} /\ "actions" \in Range(formats)

\* C15: no step of the audit export changes the actions marker file, and no
\* step of the actions export changes the audits marker file.
C15_StreamsIndependent ==
    [][ /\ AuditsPhase => actionsMarker' = actionsMarker
        /\ ActionsPhase => marker' = marker ]_vars

C15_Witness ==
    /\ pc = "loop"
    /\ done # <<>>
    /\ batch = NoBatch
    /\ marker = FileWith(modified[Last(done)])
    /\ actionsMarker.exists
    /\ actionsMarker.content # <<>>
    /\ actionsMarker.content[1] > modified[Last(done)]

\* C17: from the end of an audit's marker write until the next write begins,
\* the marker file holds the modified_at of the audit exported last, also when
\* that is earlier than the value the file held before the audit.
C17_WatermarkFollowsLastExport ==
    (pc \in {"loop", "fetch", "formats", "sleep"} /\ done # <<>>) =>
        marker = FileWith(modified[Last(done)])

C17_Witness ==
    /\ pc = "loop"
    /\ done # <<>>
    /\ wmAudit.exists
    /\ wmAudit.content # <<>>
    /\ wmAudit.content[1] > modified[Last(done)]
    /\ marker = FileWith(modified[Last(done)])

\* C18: when export_actions has saved a batch and written the actions marker,
\* the marker file holds the modified_at of a record of that batch.
C18_ActionsWatermarkIsRecordTime ==
    (pc = "audits" /\ batch.found /\ batch.actions # {}) =>
        \E x \in batch.actions : actionsMarker = FileWith(ActionModified[x])

\* the process is inside the loop over the audits of sync_exports
InAuditLoop == pc \in {"loop", "fetch", "formats", "write"}

SqlEntries(fmts) == Cardinality({i \in 1..Len(fmts) : fmts[i] = "sql"})

BothReady == cfgRuns # <<>> /\ \A r \in Runs : cfgRuns[r].at = "ready"

\* C16 (as claimed): two runs whose config_name settings differ and were both
\* accepted never write a marker file the other run wrote.
C16_DistinctSettingsDistinctFiles ==
    (BothReady /\ cfgRuns[1].setting # cfgRuns[2].setting) =>
        \A r \in Runs : ~cfgRuns[r].clobbered

\* C16 (amended): two runs whose configuration names differ once
\* load_config_settings has normalised them (a blank name is 'iauditor', spaces
\* are underscores) never write a marker file the other run wrote, and the
\* four file names are distinct.
C16_DistinctNamesDistinctFiles ==
    (BothReady /\ cfgRuns[1].name # cfgRuns[2].name) =>
        /\ \A r \in Runs : ~cfgRuns[r].clobbered
        /\ \A f \in checkpointFiles :
              f.path \in {SyncMarkerFilenameFor(cfgRuns[f.owner].name),
                          ActionsSyncMarkerFilenameFor(cfgRuns[f.owner].name)}

C16_Witness ==
    /\ BothReady
    /\ cfgRuns[1].name # cfgRuns[2].name
    /\ cfgRuns[1].setting.given
    /\ cfgRuns[2].setting.given
    /\ Cardinality(checkpointFiles) = 4

\* what each column of the header row stands for
ColumnValue(action, column) ==
    LET at(q) == IF q \in DOMAIN action THEN action[q] ELSE ""
    IN  CASE column = "actionId" -> at("action_id")
          [] column = "description" -> at("description")
          [] column = "assignee" ->
                IF "assignees" \in DOMAIN action THEN "ann, bob" ELSE ""
          [] column = "priority" ->
                IF at("priority") = "30" THEN "High" ELSE ""
          [] column = "priorityCode" -> at("priority")
          [] column = "status" -> IF at("status") = "50" THEN "Done" ELSE ""
          [] column = "statusCode" -> at("status")
          [] column = "dueDatetime" -> at("due_at")
          [] column = "audit" -> at("audit.name")
          [] column = "auditId" -> at("audit.audit_id")
          [] column = "linkedToItem" -> at("item.label")
          [] column = "linkedToItemId" -> at("item.item_id")
          [] column = "creatorName" -> at("created_by.name")
          [] column = "creatorId" -> at("created_by.user_id")
          [] column = "createdDatetime" -> at("created_at")
          [] column = "modifiedDatetime" -> at("modified_at")
          [] column = "completedDatetime" -> at("completed_at")

\* the rows a call of save_exported_actions_to_csv_file added below the header
RowsAdded ==
    LET old == IF actionsCsv.before = <<>> THEN 1 ELSE Len(actionsCsv.before)
    IN  SubSeq(actionsCsv.file, old + 1, Len(actionsCsv.file))

\* C19: the call adds one row for each action of a non-empty batch, in batch
\* order and also for an action modified just now; every row has the 17
\* columns of the header row, each holding the value its header names, or ''
\* when the record lacks it; the file starts with the header row.
C19_OneRowPerAction ==
    (actionsCsv # <<>> /\ actionsCsv.saved /\ actionsArray # <<>>) =>
        /\ Len(ActionsHeader) = 17
        /\ actionsCsv.file[1] = ActionsHeader
        /\ Len(RowsAdded) = Len(actionsArray)
        /\ \A i \in 1..Len(RowsAdded) :
              /\ Len(RowsAdded[i]) = Len(ActionsHeader)
              /\ \A k \in 1..Len(ActionsHeader) :
                    k <= Len(RowsAdded[i]) =>
                        RowsAdded[i][k] = ColumnValue(actionsArray[i], ActionsHeader[k])

C19_Witness ==
    /\ actionsCsv # <<>>
    /\ actionsCsv.saved
    /\ actionsCsv.before # <<>>
    /\ Len(actionsArray) = 2
    /\ DOMAIN actionsArray[1] = {}
    /\ DOMAIN actionsArray[2] = LeafPaths
    /\ actionsArray[2]["modified_at"] = "now"
    /\ Len(actionsCsv.file) = 4

\* C21: when sql_setup fails (the table is missing and its creation is
\* refused), only the tabular export stops: every other configured format is
\* still exported for every discovered audit.
C21_SetupFailureSparesOtherFormats ==
    tabRun.cause = "setup_refused" =>
        \A i \in 1..Len(tabRun.list), f \in Range(tabRun.fmts) \ {"sql", "pickle"} :
            <<tabRun.list[i], f>> \in tabRun.docs

\* C22: a missing table is created only when ALLOW_TABLE_CREATION is 'true' or
\* the operator answers the prompt with yes; when creation is refused the
\* process exits, the table is still missing, no audit was exported to any
\* format and the marker holds what it held.
C22_CreationIsGated ==
    /\ tabRun.created =>
          \/ tabRun.allow = "true"
          \/ /\ tabRun.prompted
             /\ tabRun.answer # <<>>
             /\ tabRun.answer[1] \in {"y", "Y"}
    /\ (~db.exists /\ tabRun.pc # "setup") =>
          /\ tabRun.pc = "dead"
          /\ tabRun.cause = "setup_refused"
          /\ ~tabRun.created
          /\ db.rows = {}
          /\ session = {}
          /\ tabRun.docs = {}
          /\ tabRun.sqlCalls = {}
          /\ tabRun.mark = Epoch

C22_Witness ==
    /\ tabRun.cause = "setup_refused"
    /\ tabRun.prompted
    /\ tabRun.list # <<>>

\* the keys of the batch in flight that the table held when the batch began
Conflicts == Keys(tabRun.found) \cap AuditKeys(TabularAudit)

\* the rows of the table that belong to the audit of the batch
BatchRows == {r \in db.rows : r.key \in AuditKeys(TabularAudit)}

\* the handler of the IntegrityError has run and the commit is done
ConflictResolved ==
    /\ tabRun.pc = "formats"
    /\ tabRun.at <= Len(tabRun.list)
    /\ tabRun.committed
    /\ tabRun.outcome = "integrity"

\* C23: when the bulk insert of an audit's rows meets a duplicate key for one
\* row, the other rows are in the table through the bulk path and only the
\* conflicting row through the merge path; the table holds every row of the
\* audit and the process has not ended with an exception.
C23_OnlyConflictMerged ==
    (ConflictResolved /\ Cardinality(Conflicts) = 1) =>
        /\ \A r \in BatchRows :
              r.via = IF r.key \in Conflicts THEN "merge" ELSE "bulk"
        /\ Cardinality(BatchRows) = RowsPerAudit
        /\ tabRun.cause \in {"none", "interrupt"}

\* C23, amended: when the bulk insert of an audit's rows meets a duplicate key
\* for one row, the whole batch is rolled back and every row of the audit is
\* written through the merge path; the table holds every row of the audit
\* once, the rows of other audits are as they were, and the process has not
\* ended with an exception.
C23_ConflictMergesEveryRow ==
    (ConflictResolved /\ Cardinality(Conflicts) = 1) =>
        /\ \A r \in BatchRows : r.via = "merge"
        /\ Keys(BatchRows) = AuditKeys(TabularAudit)
        /\ Cardinality(BatchRows) = RowsPerAudit
        /\ db.rows \ BatchRows = {r \in tabRun.found : r.key \notin AuditKeys(TabularAudit)}
        /\ tabRun.rollbacks = 1
        /\ tabRun.cause \in {"none", "interrupt"}

C23_Witness ==
    /\ ConflictResolved
    /\ Cardinality(Conflicts) = 1
    /\ Cardinality(BatchRows) = RowsPerAudit

\* C24: after a KeyboardInterrupt during bulk_insert_mappings the transaction
\* has been rolled back, the process has ended with status 0, the table holds
\* the rows it held before the batch, and the marker does not hold the
\* interrupted audit's modified_at.
C24_InterruptRollsBack ==
    tabRun.cause = "interrupt_in_bulk" =>
        /\ tabRun.pc = "dead"
        /\ tabRun.status = "0"
        /\ tabRun.rollbacks = 1
        /\ session = {}
        /\ db.rows = tabRun.found
        /\ \A r \in db.rows : r.via # "bulk" \/ r.key \notin AuditKeys(TabularAudit)
        /\ tabRun.mark # TabularModified[TabularAudit]

C24_Witness ==
    /\ tabRun.cause = "interrupt_in_bulk"
    /\ tabRun.at > 1
    /\ tabRun.mark # Epoch

\* a call of sync_exports begins
PassBegins == loopRun'.passes = loopRun.passes + 1

\* C25: in loop mode a call of sync_exports begins only when no pass is in
\* progress, the previous pass has returned, and the one time.sleep that
\* followed it has lasted the configured delay; at most one pass is in
\* progress at any time; and the loop ends only by an interrupt, a sys.exit or
\* an uncaught exception of a pass, never by returning.
C25_PassesAreSequential ==
    /\ [](loopRun.running \in {0, 1})
    /\ [](loopRun.running = 1 <=> loopRun.pc = "pass")
    /\ []((loopRun.enabled) =>
            /\ loopRun.pc # "ended"
            /\ loopRun.pc = "dead" => loopRun.cause \in {"interrupt", "exit", "error"})
    /\ [][(PassBegins /\ loopRun.passes > 0) =>
            /\ loopRun.enabled
            /\ loopRun.running = 0
            /\ loopRun.last = "returned"
            /\ loopRun.pc = "sleeping"
            /\ loopRun.sleeps = 1
            /\ loopRun.slept = loopRun.delay]_vars

C25_Witness ==
    /\ loopRun.enabled
    /\ loopRun.passes = MaxPasses
    /\ loopRun.delay > 0
    /\ loopRun.pc = "sleeping"
    /\ loopRun.slept = loopRun.delay

RECURSIVE SumOver(_, _)
SumOver(f, s) == IF s = <<>> THEN 0 ELSE f[Head(s)] + SumOver(f, Tail(s))

\* the media references of an item, by source: the descriptors of its media
\* collection, then responses.image, then options.media
References(item) ==
    (IF "media" \in DOMAIN item THEN item["media"] ELSE <<>>)
    \o (IF "responses.image" \in DOMAIN item THEN <<item["responses.image"]>> ELSE <<>>)
    \o (IF "options.media" \in DOMAIN item THEN <<item["options.media"]>> ELSE <<>>)

RECURSIVE AllReferences(_)
AllReferences(items) ==
    IF items = <<>> THEN <<>> ELSE References(Head(items)) \o AllReferences(Tail(items))

\* C26: the list get_media_from_audit returns has one entry per media
\* reference of the items of header_items followed by items, in document order
\* and within an item in the order media, responses.image, options.media;
\* entry i carries the media id of reference i, duplicates included, and the
\* extension 'jpg' when that reference has no file_ext, else its file_ext.
C26_OneEntryPerReference ==
    mediaRun.pc # "locate" =>
        LET refs == AllReferences(AllItems(mediaRun.doc))
        IN  /\ Len(mediaRun.list) = Len(refs)
            /\ Len(mediaRun.list) =
                  SumOver([item \in MediaItems |-> Len(References(item))],
                          AllItems(mediaRun.doc))
            /\ \A i \in 1..Len(refs) :
                  /\ mediaRun.list[i][1] = refs[i].media_id
                  /\ mediaRun.list[i][2] =
                        IF "file_ext" \in DOMAIN refs[i] THEN refs[i].file_ext ELSE "jpg"

C26_Witness ==
    /\ mediaRun.pc # "locate"
    /\ Len(mediaRun.list) > Len(AllItems(mediaRun.doc))
    /\ \E i, j \in 1..Len(mediaRun.list) :
          /\ i < j
          /\ mediaRun.list[i][1] = mediaRun.list[j][1]
          /\ mediaRun.list[i][2] = "jpg"

\* the media ids located, and the (media id, extension) pairs
LocatedIds == {mediaRun.list[i][1] : i \in 1..Len(mediaRun.list)}

LocatedFiles ==
    {<<mediaRun.list[i][1], IF mediaRun.list[i][2] = "" THEN "jpg" ELSE mediaRun.list[i][2]>> :
        i \in 1..Len(mediaRun.list)}

\* export_audit_media has fetched and saved in step with the located list
FetchedInOrder ==
    /\ Len(mediaRun.saves) <= Len(mediaRun.fetches)
    /\ Len(mediaRun.fetches) <= Len(mediaRun.list)
    /\ \A i \in 1..Len(mediaRun.fetches) : mediaRun.fetches[i] = mediaRun.list[i][1]
    /\ mediaRun.pc = "done" =>
          /\ Len(mediaRun.fetches) = Len(mediaRun.list)
          /\ Len(mediaRun.saves) = Len(mediaRun.list)

\* C27: export_audit_media fetches and saves once per located entry, in
\* located order; a media id located twice is fetched twice and its second
\* save overwrites the file of the first, so there are as many media files as
\* media ids.
C27_OneFilePerMediaId ==
    /\ FetchedInOrder
    /\ mediaRun.pc = "done" => Cardinality(mediaRun.files) = Cardinality(LocatedIds)

\* C27, amended: export_audit_media fetches and saves once per located entry,
\* in located order; entry i is saved as '<media id>.<extension>' with 'jpg'
\* for an empty extension; an entry located twice with the same extension is
\* fetched twice and its second save overwrites the file of the first, so
\* there are as many media files as pairs of media id and extension.
C27_OneFilePerIdAndExtension ==
    /\ FetchedInOrder
    /\ \A i \in 1..Len(mediaRun.saves) :
          \E ext \in {"jpg", "png"} :
              /\ mediaRun.saves[i] = mediaRun.list[i][1] \o "." \o ext
              /\ mediaRun.list[i][2] \in {ext, IF ext = "jpg" THEN "" ELSE ext}
    /\ mediaRun.pc = "done" =>
          /\ mediaRun.files = Range(mediaRun.saves)
          /\ Cardinality(mediaRun.files) = Cardinality(LocatedFiles)
          /\ mediaRun.overwrites = Len(mediaRun.list) - Cardinality(LocatedFiles)

C27_Witness ==
    /\ mediaRun.pc = "done"
    /\ mediaRun.overwrites > 0
    /\ Cardinality(mediaRun.files) > 1

\* the document has audit_data.name
HasName(doc) == "audit_data" \in DOMAIN doc /\ "name" \in DOMAIN doc["audit_data"]

\* header item i carries the configured id and a text that is not blank
TitleItem(doc, id, i) ==
    /\ doc["header_items"][i]["item_id"] = id
    /\ "responses" \in DOMAIN doc["header_items"][i]
    /\ "text" \in DOMAIN doc["header_items"][i]["responses"]
    /\ \E k \in 1..Len(doc["header_items"][i]["responses"]["text"]) :
          doc["header_items"][i]["responses"]["text"][k] # " "

\* C28: with the audit title id configured and audit_data.name in the
\* document, the export filename is that name with each '/' replaced by '_',
\* whatever the header items are; otherwise it is the responses.text of the
\* (first) header item that carries the configured id and a text that is not
\* blank; with no id configured, no such item, or an empty name, it is the
\* audit id.
C28_FilenameResolution ==
    fileRun.named =>
        LET doc == fileRun.doc
            id == fileRun.setting.id
            titles == {i \in 1..Len(doc["header_items"]) : TitleItem(doc, id, i)}
        IN  IF ~fileRun.setting.given THEN fileRun.filename = FilenameAuditId
            ELSE IF id = AuditTitleItemId /\ HasName(doc)
            THEN IF doc["audit_data"]["name"] = <<>>
                 THEN fileRun.filename = FilenameAuditId
                 ELSE /\ Len(fileRun.filename) = Len(doc["audit_data"]["name"])
                      /\ \A k \in 1..Len(fileRun.filename) :
                            fileRun.filename[k] =
                                IF doc["audit_data"]["name"][k] = "/" THEN "_"
                                ELSE doc["audit_data"]["name"][k]
            ELSE IF titles # {}
            THEN \E i \in titles :
                    /\ \A j \in titles : i <= j
                    /\ fileRun.filename = doc["header_items"][i]["responses"]["text"]
            ELSE fileRun.filename = FilenameAuditId

\* 'A/B' as audit_data.name, the audit title id configured, no header item
C28_Witness ==
    /\ fileRun.named
    /\ fileRun.setting.id = AuditTitleItemId
    /\ fileRun.doc["header_items"] = <<>>
    /\ fileRun.filename = <<"A", "_", "B">>

\* the audits whose CSV, database and pickle exports are done
CsvExported == {TableAudits[i] : i \in {j \in 1..Len(TableAudits) :
                    j < tableRun.at \/ (j = tableRun.at /\ tableRun.step # "csv")}}

AllExported == {TableAudits[i] : i \in 1..(tableRun.at - 1)}

\* C29: after export_audit_csv the k-th row of the audit's table has k in its
\* first column, for k = 1..n, the other cells are as flattening left them,
\* the numbering starts at 1 again for every audit, and these are the rows
\* appended to the file.
C29_RowIndexPerAudit ==
    /\ \A a \in CsvExported :
          /\ Len(tableRun.csvOf[a]) = Len(tableRun.tables[a])
          /\ \A k \in 1..Len(tableRun.csvOf[a]) :
                /\ tableRun.csvOf[a][k]["0"] = [type |-> "num", v |-> k]
                /\ \A c \in TableColumns \ {"0"} :
                      tableRun.csvOf[a][k][c] = tableRun.tables[a][k][c]
    /\ tableRun.at > Len(TableAudits) =>
          tableRun.csv = tableRun.csvOf["first"] \o tableRun.csvOf["second"]

C29_Witness ==
    /\ tableRun.at > Len(TableAudits)
    /\ Len(tableRun.csv) = RowsPerAudit + RowsPerAudit
    /\ tableRun.csv[RowsPerAudit]["0"].v = RowsPerAudit
    /\ tableRun.csv[RowsPerAudit + 1]["0"].v = 1

\* C30: a score, max score or score percentage that flattening left empty is
\* still the empty sentinel in the CSV row, is the number 0 in the database
\* record and is NaN in the pickle frame; one that holds a number holds the
\* same number in all three.
C30_DualEmptyPolicy ==
    \A a \in AllExported :
        \A k \in 1..Len(tableRun.tables[a]) :
            \A c \in ScoreColumns :
                IF tableRun.tables[a][k][c].type = "empty"
                THEN /\ tableRun.csvOf[a][k][c] = [type |-> "empty", v |-> 0]
                     /\ tableRun.sqlOf[a][k][c] = [type |-> "num", v |-> 0]
                     /\ tableRun.pickleOf[a][k][c] = [type |-> "nan", v |-> 0]
                ELSE /\ tableRun.csvOf[a][k][c] = tableRun.tables[a][k][c]
                     /\ tableRun.sqlOf[a][k][c] = tableRun.tables[a][k][c]
                     /\ tableRun.pickleOf[a][k][c] = tableRun.tables[a][k][c]

C30_Witness ==
    /\ "first" \in AllExported
    /\ \E k \in 1..Len(tableRun.tables["first"]) :
          /\ tableRun.tables["first"][k]["ItemScore"] = [type |-> "num", v |-> 0]
          /\ tableRun.tables["first"][k]["ItemMaxScore"].type = "empty"
          /\ tableRun.pickleOf["first"][k]["ItemMaxScore"].type = "nan"
          /\ tableRun.sqlOf["first"][k]["ItemMaxScore"].type = "num"

\* ids joined with commas
RECURSIVE JoinedWithCommas(_)
JoinedWithCommas(ids) ==
    IF Len(ids) = 1 THEN ids[1]
    ELSE ids[1] \o <<",">> \o JoinedWithCommas(Tail(ids))

\* ids is what splitting s on commas gives: no id holds a comma, and the ids
\* with commas between them are s
IsSplitOf(ids, s) ==
    /\ ids # <<>>
    /\ \A i \in 1..Len(ids) : \A j \in 1..Len(ids[i]) : ids[i][j] # ","
    /\ JoinedWithCommas(ids) = s

FilterCalled == filterRun # <<>> /\ filterRun.pc = "called"

\* what the three kinds of template_ids setting have in common: no setting, no
\* filter; a list file, its stripped lines in file order; and the archived and
\* completed flags, False and True when unset
FilterCommon ==
    FilterCalled =>
        /\ filterRun.call.archived =
              (IF filterRun.archived.none THEN FALSE ELSE filterRun.archived.value)
        /\ filterRun.call.completed =
              (IF filterRun.completed.none THEN TRUE ELSE filterRun.completed.value)
        /\ filterRun.setting.none <=> filterRun.call.template_id.none
        /\ ~filterRun.setting.none /\ EndsWithTxt(filterRun.setting.value) =>
              LET ids == filterRun.call.template_id.value
              IN  /\ Len(ids) = Len(filterRun.file.lines)
                  /\ \A i \in 1..Len(ids) : ids[i] = Strip(filterRun.file.lines[i])

\* C31 as stated: with no template_ids the call has no template filter, with a
\* value that ends in '.txt' it has the stripped lines of the file in file
\* order, with any other value it has exactly the ids that splitting the value
\* on commas gives, and the archived and completed flags are passed in every case
C31_SplitOnCommas ==
    /\ FilterCommon
    /\ FilterCalled /\ ~filterRun.setting.none /\ ~EndsWithTxt(filterRun.setting.value) =>
          IsSplitOf(filterRun.call.template_id.value, filterRun.setting.value)

\* C31, amended: as above, but a value of one character is never split: the
\* filter is the one-element list holding that character, a lone comma included
C31_TemplateFilter ==
    /\ FilterCommon
    /\ FilterCalled /\ ~filterRun.setting.none /\ ~EndsWithTxt(filterRun.setting.value) =>
          IF StrLen(filterRun.setting.value) = 1
          THEN filterRun.call.template_id.value = <<filterRun.setting.value>>
          ELSE IsSplitOf(filterRun.call.template_id.value, filterRun.setting.value)

\* a list file of two lines, one of them padded, has been read with both flags
\* unset
C31_Witness ==
    /\ FilterCalled
    /\ filterRun.archived.none
    /\ filterRun.completed.none
    /\ EndsWithTxt(filterRun.setting.value)
    /\ filterRun.call.template_id.value = << <<"b">>, <<"a">> >>

\* a delay or an offset is valid when it is a non-negative number of seconds:
\* an integer in the file, the digits of one in the environment
ValidSeconds(docker, v) ==
    IF docker THEN v.type = "str" /\ v.text = "5"
    ELSE v.type = "int" /\ v.num >= 0

ConfigLoaded == configRun # <<>> /\ configRun.pc # "start"

\* C32: once the configuration is loaded, an invalid sync delay has been
\* replaced by 900 and an invalid media-sync offset by 600, neither ends the
\* process, and with a missing or malformed token the process ends before any
\* discovery
C32_DefaultOrFatal ==
    ConfigLoaded =>
        /\ ~ValidSeconds(configRun.docker, configRun.delay) /\ TokenIsValid(configRun.token) =>
              /\ configRun.pc # "raised"
              /\ configRun.settings.delay = IntValue(DefaultSyncDelayInSeconds)
        /\ ( /\ ~ValidSeconds(configRun.docker, configRun.offset)
             /\ ValidSeconds(configRun.docker, configRun.delay)
             /\ TokenIsValid(configRun.token) ) =>
              /\ configRun.pc # "raised"
              /\ configRun.settings.offset = IntValue(DefaultMediaSyncOffsetInSeconds)
        /\ ~TokenIsValid(configRun.token) =>
              /\ configRun.pc \in {"loaded", "raised", "exited"}
              /\ configRun.discoveries = 0

Invocations == IF flattenRun = <<>> THEN {} ELSE 1..Len(flattenRun.tables)

RECURSIVE DeactivatedItems(_)
DeactivatedItems(items) ==
    IF items = <<>> THEN 0
    ELSE LET item == Head(items)
         IN  (IF item.type = "section" THEN DeactivatedItems(item.children)
              ELSE IF item.inactive THEN 1 ELSE 0)
             + DeactivatedItems(Tail(items))

\* C34: for one document, the rows without inactive items are no more than the
\* rows with them, and fewer by exactly the number of items inside a
\* deactivated branch
C34_InactiveRowsDifference ==
    \A i, j \in Invocations :
        ~flattenRun.tables[i].include /\ flattenRun.tables[j].include =>
            /\ Len(flattenRun.tables[i].table) <= Len(flattenRun.tables[j].table)
            /\ Len(flattenRun.tables[j].table) - Len(flattenRun.tables[i].table) =
                  DeactivatedItems(flattenRun.doc.header_items \o flattenRun.doc.items)

\* a document with three inactive questions flattened without and with them
C34_Witness ==
    /\ flattenRun # <<>>
    /\ \E i, j \in Invocations :
        /\ ~flattenRun.tables[i].include
        /\ flattenRun.tables[j].include
        /\ Len(flattenRun.tables[j].table) = Len(flattenRun.tables[i].table) + 3

\* the audits of this pass handed to process_audit so far
Processed == {list[i] : i \in 1..(idx - 1)}

\* the step of process_audit on an audit that is too young for the gate
GateStops ==
    /\ ProcessAuditGate
    /\ ElapsedTime(now, modified[CurrentAudit]) <= MediaSyncOffset

\* C35: process_audit on an audit that fails the readiness gate returns at
\* once: the loop over the audits moves on, no audit document is fetched, no
\* exporter is invoked, no file is written, and the marker file is what it was;
\* an audit stopped in a pass is not exported in that pass, and a pass that has
\* only stopped audits so far has done no work and left the watermark alone
C35_StoppedAuditHasNoEffect ==
    /\ [][GateStops =>
            /\ pc' = "loop"
            /\ idx' = idx + 1
            /\ CurrentAudit \in skipped'
            /\ UNCHANGED <<marker, actionsMarker, pickleFile, calls, wmWrites, worked,
                           done, hist>>]_vars
    /\ [](pc \in {"fetch", "formats", "write"} => ~(CurrentAudit \in skipped))
    /\ [](\A a \in skipped : \A i \in 1..Len(done) : done[i] # a)
    /\ []((pc = "loop" /\ found = "result" /\ Processed # {} /\ Processed \subseteq skipped) =>
            /\ ~worked
            /\ done = <<>>
            /\ LastSuccessful(marker) = wmPass)

\* a pass is over in which the gate stopped one audit and let another through
C35_Witness ==
    /\ pc = "sleep"
    /\ found = "result"
    /\ skipped # {}
    /\ Len(done) = 1
    /\ Len(list) = 2
    /\ list[1] \in skipped

PassOver == passRun # <<>> /\ passRun.pc \in {"returned", "raised", "exited"}

\* C36: the calls of process_audit made so far are the first entries of the
\* discovery result, in its order, an audit listed twice being processed
\* twice; when the pass returns, every entry has been processed exactly once;
\* the watermark handed to discovery is read once, at the start, whatever the
\* marker becomes later; and the pass comes to an end
C36_EachEntryOnceInOrder ==
    /\ [](passRun.pc # "start" =>
            /\ Len(passRun.calls) <= Len(passRun.result)
            /\ \A i \in 1..Len(passRun.calls) : passRun.calls[i] = passRun.result[i]
            /\ passRun.reads = 1)
    /\ [](passRun.pc = "returned" => passRun.calls = passRun.result)
    /\ [][passRun.pc # "start" => passRun.after' = passRun.after]_vars
    /\ <>PassOver

\* a pass has returned after three calls of process_audit, two of them for the
\* same audit, and the marker is no longer what discovery was given
C36_Witness ==
    /\ passRun # <<>>
    /\ passRun.pc = "returned"
    /\ passRun.calls = <<2, 1, 2>>
    /\ passRun.marker # passRun.after

\* the file name each naming mode stands for
NameOfMode(setting, doc) ==
    IF setting = Raw("bool", 0, "True")
    THEN [i \in 1..(Len(doc.name) + 2) |->
            IF i = Len(doc.name) + 1 THEN " - "
            ELSE IF i = Len(doc.name) + 2 THEN doc.template_id
            ELSE IF doc.name[i] \in {"/", "\\"} THEN " " ELSE doc.name[i]]
    ELSE IF setting.type = "str" /\ setting.text \in {"single_file", "single_file_per_config"}
    THEN BulkConfigName
    ELSE <<doc.template_id>>

\* C37: whatever the value of use_real_template_name, export_audit_csv does
\* not fail and appends the rows of the audit to exactly one file, the one its
\* naming mode stands for: the template id, the template name and id with the
\* separators replaced by spaces, or the configuration name
C37_OneFileByModeAlone ==
    bulkRun # <<>> =>
        /\ bulkRun.pc # "raised"
        /\ \A i \in 1..Len(bulkRun.exports) :
            bulkRun.exports[i].paths =
                {<<"exports", "/">> \o NameOfMode(bulkRun.setting, bulkRun.exports[i].doc)
                    \o <<".csv">>}

ActionExportsMade == IF actionsRun = <<>> THEN {} ELSE 1..Len(actionsRun.log)

\* C38: an export of actions whose fetch returned None writes no row and
\* leaves the actions marker as it was, and so does, for the marker, an export
\* whose bulk insert failed with OperationalError
C38_NoAdvanceWithoutSave ==
    \A i \in ActionExportsMade :
        LET e == actionsRun.log[i]
        IN  /\ ~e.found => e.rows = {} /\ e.marker = e.before
            /\ e.outcome = "operational" => e.marker = e.before

\* C39: with 'actions-sql' and 'actions' both configured, the second export
\* of the pass queries with the watermark the first queried with and gets the
\* same batch, so every action in the database after the pass is in the CSV
\* file too
C39_BothSinksSameBatch ==
    (actionsRun # <<>> /\ Len(actionsRun.log) = 2) =>
        /\ actionsRun.log[2].after = actionsRun.log[1].after
        /\ (actionsRun.log[1].found /\ actionsRun.log[2].found =>
                actionsRun.log[2].batch = actionsRun.log[1].batch)
        /\ (actionsRun.pc = "audits" => actionsRun.dbRows \subseteq actionsRun.csvRows)

\* C40: while an audit of a configuration that holds 'sql' is processed, the
\* get_started handed to process_audit is the tuple sql_setup returned for the
\* audit table, whatever the other formats are and wherever they stand
C40_SqlSetupResultReachesExport ==
    ("sql" \in Range(formats) /\ pc \in {"fetch", "formats", "write"}) =>
        getStarted = "sql_tuple"

====
